---- MODULE Spec2Model ----
(***************************************************************************)
(* Credential pool, ban ledger and retry orchestrator of the Antigravity   *)
(* gateway (src/src/antigravity_credential_manager.py,                     *)
(* src/src/openai_router.py, src/src/storage/file_storage_manager.py).     *)
(*                                                                         *)
(* Strings the code inspects character by character (model names,          *)
(* durations) are sequences of one-character strings.  Times are whole     *)
(* seconds.                                                                *)
(***************************************************************************)
EXTENDS Integers, Sequences, FiniteSets, TLC

VARIABLES
    config,       \* the configuration the code reads through config.get_*
    clock,        \* the wall clock (time.time(), datetime.now), in seconds
    pool,         \* accounts.toml and the credential manager's fields
    lock,         \* _operation_lock is held
    acquiring,    \* the get_valid_credential call that waits for the lock
    returned,     \* what the get_valid_credential call that ran last returned
    budget,       \* how often the environment may still fail a read, add an account, report an error
    banInput,     \* SpecBan: the 429 body and the clock handed to _handle_429_series_ban
    banResult,    \* SpecBan: what _handle_429_series_ban computed
    banPc,        \* SpecBan: "input" before the call, "done" after it
    stream,       \* SpecStream: antigravity_stream_generator's locals and output
    stats,        \* SpecStream: the calls AntigravityUsageStats has recorded
    quota,        \* SpecQuota: AntigravityUsageStats, the usage fields of accounts.toml, the calls in progress
    store,        \* SpecStore: the file accounts.toml, its backups and the operations in progress on it
    calls,        \* SpecNet: the calls of the pool's interface in progress, each at an await
    request,      \* SpecRequest: the chat completion request handle_antigravity_request serves
    backend       \* SpecClassify: the status and the error text of the backend's last answer

poolVars == <<config, clock, pool, lock, acquiring, returned, budget>>

banVars == <<banInput, banResult, banPc>>

streamVars == <<stream, stats, quota, store, calls, request, backend>>

vars ==
    <<config, clock, pool, lock, acquiring, returned, budget,
      banInput, banResult, banPc, stream, stats, quota, store, calls, request, backend>>

(***************************************************************************)
(* Text helpers                                                            *)
(***************************************************************************)
Digits == {"0", "1", "2", "3", "4", "5", "6", "7", "8", "9"}

DigitsOrDot == Digits \cup {"."}

DigitVal(c) ==
    CASE c = "0" -> 0 [] c = "1" -> 1 [] c = "2" -> 2 [] c = "3" -> 3
      [] c = "4" -> 4 [] c = "5" -> 5 [] c = "6" -> 6 [] c = "7" -> 7
      [] c = "8" -> 8 [] c = "9" -> 9

\* int("0570") = 570
RECURSIVE ToInt(_)
ToInt(s) ==
    IF s = << >> THEN 0
    ELSE 10 * ToInt(SubSeq(s, 1, Len(s) - 1)) + DigitVal(s[Len(s)])

\* str.lower() on the letters that occur in model names
LowerChar(c) ==
    CASE c = "C" -> "c" [] c = "G" -> "g" [] c = "P" -> "p"
      [] OTHER -> c

Lower(s) == [i \in 1..Len(s) |-> LowerChar(s[i])]

\* pat in s
Contains(s, pat) ==
    \E i \in 1..(Len(s) - Len(pat) + 1) : SubSeq(s, i, i + Len(pat) - 1) = pat

\* The last index of the run of class characters that starts at i.
RunEnd(s, i, cls) ==
    CHOOSE j \in i..Len(s) :
        /\ \A k \in i..j : s[k] \in cls
        /\ (j = Len(s) \/ s[j + 1] \notin cls)

\* re.search(r'(<cls>+)<unit>', s): the captured group of the leftmost match,
\* << >> when nothing matches.  The unit is never in cls, so a match starts a
\* run of class characters that the unit follows directly.
ReSearchGroup(s, cls, unit) ==
    LET starts == {i \in 1..Len(s) :
                     /\ s[i] \in cls
                     /\ LET j == RunEnd(s, i, cls)
                        IN  j < Len(s) /\ s[j + 1] = unit}
    IN  IF starts = {} THEN << >>
        ELSE LET i == CHOOSE a \in starts : \A b \in starts : a <= b
             IN  SubSeq(s, i, RunEnd(s, i, cls))

NumDots(s) == Cardinality({i \in 1..Len(s) : s[i] = "."})

\* float(g) raises ValueError unless g has digits and at most one dot
FloatOk(g) == NumDots(g) <= 1 /\ \E i \in 1..Len(g) : g[i] \in Digits

\* int(float(g)): the digits before the dot
IntOfFloat(g) ==
    LET dots == {i \in 1..Len(g) : g[i] = "."}
    IN  IF dots = {} THEN ToInt(g)
        ELSE ToInt(SubSeq(g, 1, (CHOOSE d \in dots : TRUE) - 1))

ValueError == -1

\* The substrings _identify_model_series looks for.
CLAUDE == <<"c", "l", "a", "u", "d", "e">>

GEMINI_D3 == <<"g", "e", "m", "i", "n", "i", "-", "3">>

GEMINI_3 == <<"g", "e", "m", "i", "n", "i", "3">>

GEMINI_D25 == <<"g", "e", "m", "i", "n", "i", "-", "2", ".", "5">>

GEMINI_25 == <<"g", "e", "m", "i", "n", "i", "2", ".", "5">>

GEMINI_D2 == <<"g", "e", "m", "i", "n", "i", "-", "2">>

GEMINI_2 == <<"g", "e", "m", "i", "n", "i", "2">>

GEMINI == <<"g", "e", "m", "i", "n", "i">>

\* Model names of requests and of 429 bodies.
M_CLAUDE_SONNET == <<"C", "l", "a", "u", "d", "e", "-", "s", "o", "n", "n", "e", "t", "-", "4", "-", "5">>

M_GEMINI_3_PRO_HIGH == <<"g", "e", "m", "i", "n", "i", "-", "3", "-", "p", "r", "o", "-", "h", "i", "g", "h">>

M_GEMINI_25_PRO == <<"g", "e", "m", "i", "n", "i", "-", "2", ".", "5", "-", "p", "r", "o">>

M_GEMINI_20_FLASH == <<"g", "e", "m", "i", "n", "i", "-", "2", ".", "0", "-", "f", "l", "a", "s", "h">>

M_GEMINI_PRO == <<"g", "e", "m", "i", "n", "i", "-", "p", "r", "o">>

M_GPT_OSS == <<"g", "p", "t", "-", "o", "s", "s">>

\* quotaResetDelay strings of 429 bodies.
D_10M == <<"1", "0", "m">>

D_2H22M50S == <<"2", "h", "2", "2", "m", "5", "0", ".", "0", "6", "5", "s">>

D_HALF_S == <<"0", ".", "5", "s">>

D_TWO_DOTS == <<"1", ".", "2", ".", "3", "s">>

D_8570S == <<"8", "5", "7", "0", ".", "0", "6", "s">>


(***************************************************************************)
(* Duration and 429-body parsing                                           *)
(***************************************************************************)
\* _parse_duration_to_seconds: hours, minutes and (truncated) seconds of a
\* duration such as "2h22m50.065s"; ValueError when float() rejects the
\* seconds group.
parse_duration_to_seconds(duration_str) ==
    IF duration_str = << >> THEN 0
    ELSE LET h == ReSearchGroup(duration_str, Digits, "h")
             m == ReSearchGroup(duration_str, Digits, "m")
             sec == ReSearchGroup(duration_str, DigitsOrDot, "s")
         IN  IF sec # << >> /\ ~FloatOk(sec) THEN ValueError
             ELSE (IF h # << >> THEN ToInt(h) * 3600 ELSE 0)
                  + (IF m # << >> THEN ToInt(m) * 60 ELSE 0)
                  + (IF sec # << >> THEN IntOfFloat(sec) ELSE 0)

\* A quotaResetTimeStamp of the body: absent (or empty), not an ISO
\* timestamp, or the instant `at`.
NoTimestamp == [kind |-> "none", at |-> 0]

BadTimestamp == [kind |-> "bad", at |-> 0]

Timestamp(t) == [kind |-> "at", at |-> t]

\* What _parse_429_error_details returns when it returns None.
NoDetails ==
    [some |-> FALSE, model |-> << >>, quota_reset_timestamp |-> NoTimestamp,
     quota_reset_delay_seconds |-> 0]

\* _parse_429_error_details.  A body is [json, model, ts, delay]: whether the
\* message holds a JSON object with ErrorInfo metadata, and the metadata's
\* model, quotaResetTimeStamp and quotaResetDelay (<< >>: absent or empty).
parse_429_error_details(body) ==
    IF ~body.json THEN NoDetails
    ELSE LET d == parse_duration_to_seconds(body.delay)
         IN  IF d = ValueError THEN NoDetails
             ELSE IF body.model # << >> \/ d # 0
                  THEN [some |-> TRUE, model |-> body.model,
                        quota_reset_timestamp |-> body.ts,
                        quota_reset_delay_seconds |-> d]
                  ELSE NoDetails

(***************************************************************************)
(* Model families                                                          *)
(***************************************************************************)
NoSeries == "none"

AllSeries ==
    {"gemini_series", "gemini_2_series", "gemini_2_5_series",
     "gemini_3_series", "claude_series"}

\* _identify_model_series: substring tests on the lower-cased name, in order.
identify_model_series(model_name) ==
    IF model_name = << >> THEN NoSeries
    ELSE LET m == Lower(model_name)
         IN  IF Contains(m, CLAUDE) THEN "claude_series"
             ELSE IF Contains(m, GEMINI_D3) \/ Contains(m, GEMINI_3)
                  THEN "gemini_3_series"
             ELSE IF Contains(m, GEMINI_D25) \/ Contains(m, GEMINI_25)
                  THEN "gemini_2_5_series"
             ELSE IF Contains(m, GEMINI_D2) \/ Contains(m, GEMINI_2)
                  THEN "gemini_2_series"
             ELSE IF Contains(m, GEMINI) THEN "gemini_series"
             ELSE NoSeries

(***************************************************************************)
(* Ban ledger: _handle_429_series_ban                                      *)
(***************************************************************************)
DefaultBanSeconds == 21600

MinTimestampBanSeconds == 3600

Max(a, b) == IF a >= b THEN a ELSE b

\* ban_duration_seconds with the reset delay taken as it is, not doubled
ban_duration_seconds_undoubled(error_details, now) ==
    IF ~error_details.some THEN DefaultBanSeconds
    ELSE LET ts == error_details.quota_reset_timestamp
             delay_seconds == error_details.quota_reset_delay_seconds
         IN  IF ts.kind # "none"
             THEN IF ts.kind = "at"
                  THEN Max((ts.at - now) * 2, MinTimestampBanSeconds)
                  ELSE DefaultBanSeconds
             ELSE IF delay_seconds > 0 THEN delay_seconds
             ELSE DefaultBanSeconds

\* The ban duration _handle_429_series_ban computes (lines 683-701).
ban_duration_seconds(error_details, now) ==
    IF ~error_details.some THEN DefaultBanSeconds
    ELSE LET ts == error_details.quota_reset_timestamp
             delay_seconds == error_details.quota_reset_delay_seconds
         IN  IF ts.kind # "none"
             THEN IF ts.kind = "at"
                  THEN Max((ts.at - now) * 2, MinTimestampBanSeconds)
                  ELSE DefaultBanSeconds
             ELSE IF delay_seconds > 0 THEN delay_seconds * 2
             ELSE DefaultBanSeconds

\* The families _handle_429_series_ban bans (lines 706-723).
ban_series(error_details) ==
    LET series == identify_model_series(error_details.model)
    IN  IF series # NoSeries THEN {series} ELSE AllSeries

\* _handle_429_series_ban up to its calls of _set_series_ban: the expiry and
\* the families it is set for.
handle_429(body, now) ==
    LET error_details == parse_429_error_details(body)
    IN  [ban_until |-> now + ban_duration_seconds(error_details, now),
         series |-> ban_series(error_details)]

(***************************************************************************)
(* Accounts and the Store (FileStorageManager on accounts.toml)            *)
(***************************************************************************)
\* An account without a user_id field, and the 'unknown' that
\* _discover_credentials puts in its place
NoUser == ""

UnknownUser == "unknown"

NoBans == [s \in AllSeries |-> 0]

\* One account of accounts.toml.  access_token and project_id: the field is
\* present and non-empty.  expires_at: timestamp + expires_in in seconds,
\* MissingExpiry when either field is absent.  banned_until: the
\* <series>_banned_until fields, 0 for an absent or empty one.  disabled and
\* error_codes: the state fields the Store keeps in the same entry.
\* last_success: the time of the last recorded success, NoStamp for an
\* absent field.
MissingExpiry == -1

NoStamp == -1

Account(user_id, access_token, expires_at, project_id) ==
    [user_id |-> user_id, access_token |-> access_token,
     expires_at |-> expires_at, project_id |-> project_id,
     banned_until |-> NoBans, disabled |-> FALSE, error_codes |-> {},
     last_success |-> NoStamp]

\* _current_credential_account = None
NoAccount == Account(NoUser, FALSE, MissingExpiry, FALSE)

\* f"userID_{user_id}" and virtual_filename.replace("userID_", "")
VirtualFilename(user_id) == <<"userID_", user_id>>

UserIdOf(virtual_filename) == virtual_filename[2]

\* The index of the first account with this user_id, 0 when there is none:
\* account.get('user_id') == user_id, which an account without the field
\* never satisfies.
IndexOfUser(accounts, user_id) ==
    LET hits == {i \in 1..Len(accounts) :
                    user_id # NoUser /\ accounts[i].user_id = user_id}
    IN  IF hits = {} THEN 0 ELSE CHOOSE i \in hits : \A j \in hits : i <= j

\* add_account's search of the document (lines 1047-1054): the first account
\* with the same email or the same user_id.  An account with a user_id
\* carries the email of that user; one without a user_id carries no email
\* either, and two absent emails are equal.
IndexOfAccount(accounts, account_data) ==
    LET hits == {i \in 1..Len(accounts) : accounts[i].user_id = account_data.user_id}
    IN  IF hits = {} THEN 0 ELSE CHOOSE i \in hits : \A j \in hits : i <= j

\* The index of the first pool entry with this virtual_filename, 0 when none.
IndexOfEntry(entries, virtual_filename) ==
    LET hits == {i \in 1..Len(entries) :
                    entries[i].virtual_filename = virtual_filename}
    IN  IF hits = {} THEN 0 ELSE CHOOSE i \in hits : \A j \in hits : i <= j

\* FileStorageManager.load_antigravity_accounts: the document, and
\* {"accounts": []} when the file cannot be read or parsed.  It never
\* returns None.
load_antigravity_accounts(doc, store_ok) ==
    [none |-> FALSE, accounts |-> IF store_ok THEN doc ELSE << >>]

\* FileStorageManager.get_default_state, the fields the manager reads
DefaultState == [disabled |-> FALSE, error_codes |-> {}, last_success |-> NoStamp]

\* FileStorageManager.get_credential_state for a userID_ key: the state
\* fields of the entry; the default state when the file cannot be read or
\* holds no such account.  The code reads an absent last_success as the
\* current time; the state keeps it absent here, and only
\* mark_credential_success stamps it.
get_credential_state(doc, virtual_filename, store_ok) ==
    LET i == IF store_ok THEN IndexOfUser(doc, UserIdOf(virtual_filename)) ELSE 0
    IN  IF i = 0 THEN DefaultState
        ELSE [disabled |-> doc[i].disabled, error_codes |-> doc[i].error_codes,
              last_success |-> doc[i].last_success]

\* FileStorageManager._update_antigravity_account_state: the entry updated
\* with the state and the file rewritten; nothing when the file cannot be
\* read or holds no such account.
update_credential_state(doc, virtual_filename, state, store_ok) ==
    LET i == IF store_ok THEN IndexOfUser(doc, UserIdOf(virtual_filename)) ELSE 0
    IN  IF i = 0 THEN doc
        ELSE [doc EXCEPT ![i].disabled = state.disabled,
                         ![i].error_codes = state.error_codes,
                         ![i].last_success = state.last_success]

(***************************************************************************)
(* AntigravityCredentialManager.  A pool p is                              *)
(*   doc                         accounts.toml                             *)
(*   credential_accounts         _credential_accounts                      *)
(*   current_credential_index    _current_credential_index                 *)
(*   current_credential_account  _current_credential_account               *)
(*   current_is_entry            _current_credential_account is the very   *)
(*                               object held by an entry of the list, so   *)
(*                               that a change of one is a change of both  *)
(*   call_count                  _call_count                               *)
(***************************************************************************)
Entry(account) ==
    [account |-> account, virtual_filename |-> VirtualFilename(account.user_id)]

\* The entries _discover_credentials builds for these accounts
\* The entry _discover_credentials makes (lines 238-262)
Discovered(account) ==
    [account |-> account,
     virtual_filename |->
         VirtualFilename(IF account.user_id = NoUser THEN UnknownUser
                         ELSE account.user_id)]

Entries(accounts) == [i \in 1..Len(accounts) |-> Discovered(accounts[i])]

\* _discover_credentials (lines 215-271)
discover_credentials(p, store_ok) ==
    LET accounts_data == load_antigravity_accounts(p.doc, store_ok)
        enabled(a) ==
            ~get_credential_state(p.doc, VirtualFilename(a.user_id), store_ok).disabled
    IN  IF accounts_data.none THEN p
        ELSE IF accounts_data.accounts = << >>
        THEN [p EXCEPT !.credential_accounts = << >>,
                       !.current_is_entry = FALSE]
        ELSE [p EXCEPT !.credential_accounts =
                           Entries(SelectSeq(accounts_data.accounts, enabled)),
                       !.current_is_entry = FALSE]

\* _should_rotate (lines 273-291)
should_rotate(p, cfg) ==
    /\ Len(p.credential_accounts) > 1
    /\ p.call_count >= cfg.calls_per_rotation

\* _load_current_credential (lines 321-336): an index past the end raises
\* IndexError, which is caught and leaves the current account as it was.
load_current_credential(p) ==
    IF p.credential_accounts = << >> THEN p
    ELSE IF p.current_credential_index >= Len(p.credential_accounts) THEN p
    ELSE [p EXCEPT !.current_credential_account =
                       p.credential_accounts[p.current_credential_index + 1].account,
                   !.current_is_entry = TRUE]

\* _rotate_credential without the reset of the call counter
rotate_credential_keeping_count(p) ==
    IF p.credential_accounts = << >> THEN p
    ELSE load_current_credential(
             [p EXCEPT !.current_credential_index =
                           (p.current_credential_index + 1) % Len(p.credential_accounts)])

\* _rotate_credential without the loading of the new current account
rotate_credential_unbound(p) ==
    IF p.credential_accounts = << >> THEN p
    ELSE [p EXCEPT !.current_credential_index =
                       (p.current_credential_index + 1) % Len(p.credential_accounts),
                   !.call_count = 0]

\* _rotate_credential (lines 293-313)
rotate_credential(p) ==
    IF p.credential_accounts = << >> THEN p
    ELSE load_current_credential(
             [p EXCEPT !.current_credential_index =
                           (p.current_credential_index + 1) % Len(p.credential_accounts),
                       !.call_count = 0])

\* An in-place change of the current account object: the list entry that
\* holds the same object changes with it.
SetCurrent(p, account) ==
    LET i == IndexOfEntry(p.credential_accounts, VirtualFilename(account.user_id))
    IN  IF p.current_is_entry /\ i # 0
        THEN [p EXCEPT !.current_credential_account = account,
                       !.credential_accounts[i].account = account]
        ELSE [p EXCEPT !.current_credential_account = account]

\* disable_credential (lines 982-999)
disable_credential(p, virtual_filename, store_ok) ==
    LET state == get_credential_state(p.doc, virtual_filename, store_ok)
        doc2 == update_credential_state(p.doc, virtual_filename,
                                        [state EXCEPT !.disabled = TRUE], store_ok)
    IN  discover_credentials([p EXCEPT !.doc = doc2], store_ok)

\* _save_account_to_storage (lines 445-510): the token and project fields of
\* the account written into its entry of the document.
save_account_to_storage(p, account, store_ok) ==
    LET accounts_data == load_antigravity_accounts(p.doc, store_ok)
        i == IndexOfUser(accounts_data.accounts, account.user_id)
    IN  IF accounts_data.none \/ i = 0 THEN p
        ELSE [p EXCEPT !.doc =
                 [accounts_data.accounts EXCEPT
                     ![i].access_token = IF account.access_token THEN TRUE ELSE @,
                     ![i].expires_at =
                         IF account.expires_at # MissingExpiry
                         THEN account.expires_at ELSE @,
                     ![i].project_id = IF account.project_id THEN TRUE ELSE @]]

(***************************************************************************)
(* Ban records                                                             *)
(***************************************************************************)
\* set_series_ban without the update of the in-memory entry and of the
\* current account: the expiry reaches the document only
set_series_ban_on_file(p, virtual_filename, series, ban_until, store_ok) ==
    LET accounts_data == load_antigravity_accounts(p.doc, store_ok)
        i == IndexOfUser(accounts_data.accounts, UserIdOf(virtual_filename))
    IN  IF accounts_data.none THEN p
        ELSE [p EXCEPT
                !.doc = IF i = 0 THEN accounts_data.accounts
                        ELSE [accounts_data.accounts EXCEPT
                                 ![i].banned_until[series] = ban_until]]

\* _set_series_ban (lines 732-778): the expiry written to the document,
\* the document saved whole as it was loaded, then the in-memory entry and
\* the current account updated.
set_series_ban(p, virtual_filename, series, ban_until, store_ok) ==
    LET accounts_data == load_antigravity_accounts(p.doc, store_ok)
        user_id == UserIdOf(virtual_filename)
        i == IndexOfUser(accounts_data.accounts, user_id)
        e == IndexOfEntry(p.credential_accounts, virtual_filename)
        cur == p.current_credential_account
    IN  IF accounts_data.none THEN p
        ELSE [p EXCEPT
                !.doc = IF i = 0 THEN accounts_data.accounts
                        ELSE [accounts_data.accounts EXCEPT
                                 ![i].banned_until[series] = ban_until],
                !.credential_accounts =
                    IF e = 0 THEN @
                    ELSE [@ EXCEPT ![e].account.banned_until[series] = ban_until],
                !.current_credential_account =
                    IF cur # NoAccount /\ cur.user_id = user_id
                    THEN [cur EXCEPT !.banned_until[series] = ban_until]
                    ELSE cur]

\* The loop of _handle_429_series_ban over the families (lines 721-723)
RECURSIVE set_series_bans(_, _, _, _, _)
set_series_bans(p, virtual_filename, all_series, ban_until, store_ok) ==
    IF all_series = {} THEN p
    ELSE LET s == CHOOSE x \in all_series : TRUE
         IN  set_series_bans(
                 set_series_ban(p, virtual_filename, s, ban_until, store_ok),
                 virtual_filename, all_series \ {s}, ban_until, store_ok)

\* _handle_429_series_ban (lines 670-730)
handle_429_series_ban(p, virtual_filename, body, now, store_ok) ==
    LET ban == handle_429(body, now)
    IN  set_series_bans(p, virtual_filename, ban.series, ban.ban_until, store_ok)

\* _clear_series_ban (lines 827-854): the field emptied in the document and
\* the document saved whole as it was loaded.
clear_series_ban(p, user_id, series, store_ok) ==
    LET accounts_data == load_antigravity_accounts(p.doc, store_ok)
        i == IndexOfUser(accounts_data.accounts, user_id)
    IN  IF accounts_data.none THEN p
        ELSE [p EXCEPT !.doc = IF i = 0 THEN accounts_data.accounts
                                ELSE [accounts_data.accounts EXCEPT
                                         ![i].banned_until[series] = 0]]

\* The verdict of _check_series_ban (lines 780-825)
is_banned(account, model_name, now) ==
    LET series == identify_model_series(model_name)
    IN  /\ series # NoSeries
        /\ account.banned_until[series] # 0
        /\ now < account.banned_until[series]

\* _check_series_ban (lines 780-825): the pool after the check (an elapsed
\* ban is cleared in the document) and the verdict.
check_series_ban(p, account, model_name, now, store_ok) ==
    LET series == identify_model_series(model_name)
    IN  IF series = NoSeries \/ account.banned_until[series] = 0
        THEN [p |-> p, banned |-> FALSE]
        ELSE IF now < account.banned_until[series]
        THEN [p |-> p, banned |-> TRUE]
        ELSE [p |-> clear_series_ban(p, account.user_id, series, store_ok),
              banned |-> FALSE]

(***************************************************************************)
(* Token refresh and project id                                            *)
(***************************************************************************)
RefreshMarginSeconds == 300

\* expires_in of the identity provider's answer
ExpiresIn == 3600

\* _is_token_expired (lines 338-366)
is_token_expired(account, now) ==
    \/ account.expires_at = MissingExpiry
    \/ now >= account.expires_at - RefreshMarginSeconds

\* _refresh_access_token (lines 368-443) on the current account; refreshed:
\* the identity provider answered 200.
refresh_access_token(p, refreshed, now, store_ok) ==
    IF ~refreshed THEN [p |-> p, ok |-> FALSE]
    ELSE LET account == [p.current_credential_account EXCEPT
                            !.access_token = TRUE,
                            !.expires_at = now + ExpiresIn]
         IN  [p |-> save_account_to_storage(SetCurrent(p, account), account, store_ok),
              ok |-> TRUE]

\* _ensure_project_id (lines 856-912) on the current account.  fetched is
\* the outcome of _fetch_project_id_from_api: "ok" (a project id), "denied"
\* (None: 403, 404, another status, or no project in the answer) or "error"
\* (an exception).
ensure_project_id(p, cfg, fetched, store_ok) ==
    LET account == p.current_credential_account
        with_id == [account EXCEPT !.project_id = TRUE]
        e == IndexOfEntry(p.credential_accounts, VirtualFilename(account.user_id))
    IN  IF account.project_id THEN p
        ELSE IF cfg.skip_project_verification \/ fetched = "ok"
        THEN save_account_to_storage(SetCurrent(p, with_id), with_id, store_ok)
        ELSE IF fetched = "denied"
        THEN IF e = 0 THEN p
             ELSE disable_credential(p, p.credential_accounts[e].virtual_filename,
                                     store_ok)
        ELSE SetCurrent(p, with_id)

(***************************************************************************)
(* get_valid_credential (lines 512-602)                                    *)
(***************************************************************************)
\* The outcomes of one activation of get_valid_credential:
\*   "ok"       returns {account, virtual_filename}
\*   "none"     returns None; why: "no_credentials", "exhausted",
\*              "banned_single", "refresh_failed", "no_current"
\*   "raise"    IndexError leaves the function
\*   "recurse"  calls itself with checked_count, the lock still held
Outcome(p, kind, why, checked_count) ==
    [p |-> p, kind |-> kind, why |-> why, checked_count |-> checked_count,
     account |-> IF kind = "ok" THEN p.current_credential_account ELSE NoAccount,
     virtual_filename |->
         IF kind = "ok"
         THEN p.credential_accounts[p.current_credential_index + 1].virtual_filename
         ELSE VirtualFilename(NoUser)]

\* lines 593-602
return_current(p, checked_count) ==
    IF p.current_credential_account = NoAccount
    THEN Outcome(p, "none", "no_current", checked_count)
    ELSE IF p.current_credential_index >= Len(p.credential_accounts)
    THEN Outcome(p, "raise", "IndexError", checked_count)
    ELSE Outcome(p, "ok", "", checked_count)

\* The only element of a set of one element: The({F(x) : x \in {e}}) is
\* F(e) with e computed once.
The(S) == CHOOSE x \in S : TRUE

\* lines 570-591: the refresh failed
refresh_failed(p, store_ok, checked_count) ==
    IF p.current_credential_index >= Len(p.credential_accounts)
    THEN Outcome(p, "raise", "IndexError", checked_count)
    ELSE The({IF p2.credential_accounts = << >>
              THEN Outcome(p2, "none", "refresh_failed", checked_count)
              ELSE The({IF p3.current_credential_account # NoAccount
                        THEN Outcome(p3, "recurse", "", checked_count + 1)
                        ELSE Outcome(p3, "none", "no_current", checked_count) :
                        p3 \in {load_current_credential(p2)}}) :
              p2 \in {discover_credentials(
                         disable_credential(
                             p,
                             p.credential_accounts[p.current_credential_index + 1]
                                 .virtual_filename,
                             store_ok),
                         store_ok)}})

\* The token check that returns the current account as it is
check_token_without_refresh(p, env, now, checked_count) ==
    return_current(p, checked_count)

\* lines 563-602: the token check and the return
check_token(p, env, now, checked_count) ==
    IF /\ p.current_credential_account # NoAccount
       /\ is_token_expired(p.current_credential_account, now)
    THEN The({IF r.ok THEN return_current(r.p, checked_count)
              ELSE refresh_failed(r.p, env.store_ok, checked_count) :
              r \in {refresh_access_token(p, env.refreshed, now, env.store_ok)}})
    ELSE return_current(p, checked_count)

\* lines 546-561: the series ban check, then the token check
check_ban(p, model_name, checked_count, env, now) ==
    The({IF chk.banned
         THEN IF Len(chk.p.credential_accounts) > 1
              THEN The({Outcome(q, "recurse", "", checked_count + 1) :
                        q \in {load_current_credential(rotate_credential(chk.p))}})
              ELSE Outcome(chk.p, "none", "banned_single", checked_count)
         ELSE check_token(chk.p, env, now, checked_count) :
         chk \in {IF model_name # << >> /\ p.current_credential_account # NoAccount
                  THEN check_series_ban(p, p.current_credential_account, model_name,
                                        now, env.store_ok)
                  ELSE [p |-> p, banned |-> FALSE]}})

\* lines 542-544: the project id of the current account
check_project_id(p, cfg, model_name, checked_count, env, now) ==
    The({check_ban(q, model_name, checked_count, env, now) :
         q \in {IF p.current_credential_account # NoAccount
                THEN ensure_project_id(p, cfg, env.fetched, env.store_ok)
                ELSE p}})

\* lines 534-540: the rotation by call count and the loading of the current
\* account
select_current(p, cfg, model_name, checked_count, env, now) ==
    The({The({check_project_id(p3, cfg, model_name, checked_count, env, now) :
              p3 \in {IF p2.current_credential_account = NoAccount
                      THEN load_current_credential(p2) ELSE p2}}) :
         p2 \in {IF should_rotate(p, cfg) THEN rotate_credential(p) ELSE p}})

\* One activation, entered with the lock taken.  env: what the Store, the
\* backend and the identity provider answer during it.
get_valid_credential(p, cfg, model_name, checked_count, env, now) ==
    The({IF p1.credential_accounts = << >>
         THEN Outcome(p1, "none", "no_credentials", checked_count)
         ELSE IF checked_count >= Len(p1.credential_accounts)
         THEN Outcome(p1, "none", "exhausted", checked_count)
         ELSE select_current(p1, cfg, model_name, checked_count, env, now) :
         p1 \in {IF p.credential_accounts = << >>
                 THEN discover_credentials(p, env.store_ok) ELSE p}})

(***************************************************************************)
(* mark_credential_error, mark_credential_success, add_account             *)
(***************************************************************************)
\* The invalid-credential statuses without 404
InvalidErrorsWithout404 == {403}

CREDENTIAL_INVALID_ERRORS == {403, 404}

\* mark_credential_error that leaves every status to the configuration
mark_credential_error_by_config(p, cfg, virtual_filename, error_code, body, now, store_ok) ==
    LET state == get_credential_state(p.doc, virtual_filename, store_ok)
        p1 == [p EXCEPT !.doc =
                  update_credential_state(
                      p.doc, virtual_filename,
                      [state EXCEPT !.error_codes = @ \cup {error_code}],
                      store_ok)]
    IN  IF cfg.auto_ban_enabled /\ error_code \in cfg.auto_ban_error_codes
        THEN disable_credential(p1, virtual_filename, store_ok)
        ELSE p1

\* mark_credential_error (lines 608-668)
mark_credential_error(p, cfg, virtual_filename, error_code, body, now, store_ok) ==
    LET state == get_credential_state(p.doc, virtual_filename, store_ok)
        p1 == [p EXCEPT !.doc =
                  update_credential_state(
                      p.doc, virtual_filename,
                      [state EXCEPT !.error_codes = @ \cup {error_code}],
                      store_ok)]
    IN  IF error_code = 429
        THEN handle_429_series_ban(p1, virtual_filename, body, now, store_ok)
        ELSE IF error_code = 401 THEN p1
        ELSE IF error_code \in CREDENTIAL_INVALID_ERRORS
        THEN disable_credential(p1, virtual_filename, store_ok)
        ELSE IF cfg.auto_ban_enabled /\ error_code \in cfg.auto_ban_error_codes
        THEN disable_credential(p1, virtual_filename, store_ok)
        ELSE p1

\* mark_credential_success without the last_success stamp
mark_credential_success_unstamped(p, virtual_filename, now, store_ok) ==
    LET state == get_credential_state(p.doc, virtual_filename, store_ok)
    IN  [p EXCEPT !.doc =
            update_credential_state(p.doc, virtual_filename,
                                    [state EXCEPT !.error_codes = {}], store_ok)]

\* mark_credential_success (lines 1001-1015)
mark_credential_success(p, virtual_filename, now, store_ok) ==
    LET state == get_credential_state(p.doc, virtual_filename, store_ok)
    IN  [p EXCEPT !.doc =
            update_credential_state(p.doc, virtual_filename,
                                    [state EXCEPT !.error_codes = {},
                                                  !.last_success = now],
                                    store_ok)]

\* add_account (lines 1017-1114), entered with the lock taken.  The entry of
\* the document is replaced by account_data, state fields included.
add_account(p, account_data, store_ok) ==
    LET accounts_data == load_antigravity_accounts(p.doc, store_ok)
        i == IndexOfAccount(accounts_data.accounts, account_data)
        doc2 == IF i # 0 THEN [accounts_data.accounts EXCEPT ![i] = account_data]
                ELSE Append(accounts_data.accounts, account_data)
        virtual_filename == VirtualFilename(account_data.user_id)
        state == get_credential_state(doc2, virtual_filename, store_ok)
        e == IF account_data.user_id = NoUser THEN 0
             ELSE IndexOfEntry(p.credential_accounts, virtual_filename)
    IN  IF accounts_data.none THEN p
        ELSE IF state.disabled THEN [p EXCEPT !.doc = doc2]
        ELSE IF e # 0
        THEN [p EXCEPT !.doc = doc2,
                       !.credential_accounts[e] = Entry(account_data),
                       !.current_is_entry =
                           @ /\ p.current_credential_account.user_id
                                    # account_data.user_id]
        ELSE [p EXCEPT !.doc = doc2,
                       !.credential_accounts = Append(@, Entry(account_data))]

(***************************************************************************)
(* Bounds and inputs                                                       *)
(***************************************************************************)
MaxUsers == 2

MaxTicks == 1

TickSeconds == 3600

MaxCallCount == 2

CallsPerRotation == 2

\* The environment fails at most this many operations' reads of the Store,
\* adds at most this many accounts and reports at most this many errors.
MaxStoreFailures == 1

MaxAdds == 1

MaxErrors == 1

MaxBans == 2

UserName(i) == CASE i = 1 -> "u1" [] i = 2 -> "u2" [] i = 3 -> "u3" [] OTHER -> "u4"

Users == {UserName(i) : i \in 1..MaxUsers}

\* The configurations: get_calls_per_rotation, get_auto_ban_enabled,
\* get_auto_ban_error_codes, get_antigravity_skip_project_verification.
Configs ==
    {[calls_per_rotation |-> CallsPerRotation, auto_ban_enabled |-> b,
      auto_ban_error_codes |-> {401, 403, 404, 429, 500},
      skip_project_verification |-> ~b] : b \in BOOLEAN}

\* The account an OAuth login or the admin route hands to add_account
NewAccounts ==
    {Account(u, t, ExpiresIn, pr) : u \in Users, t \in BOOLEAN, pr \in BOOLEAN}

\* The documents at start-up: accounts u1..un with a token
RECURSIVE Docs(_, _, _)
Docs(n, tokens, projects) ==
    IF n = 0 THEN {<< >>}
    ELSE Docs(n - 1, tokens, projects) \cup
         {Append(d, Account(UserName(n), t, ExpiresIn, pr)) :
              d \in {x \in Docs(n - 1, tokens, projects) : Len(x) = n - 1},
              t \in tokens, pr \in projects}

InitialDocs(n) == Docs(n, {TRUE}, BOOLEAN)

\* The documents whose accounts all have a project id
VerifiedDocs == Docs(MaxUsers, {TRUE}, {TRUE})

\* The models a 429 body names (<< >>: none)
BanModels ==
    {<< >>, M_GEMINI_3_PRO_HIGH, M_CLAUDE_SONNET, M_GEMINI_25_PRO,
     M_GEMINI_20_FLASH, M_GEMINI_PRO, M_GPT_OSS}

\* The models of requests
RequestModels == {M_GEMINI_3_PRO_HIGH, M_CLAUDE_SONNET}

Body(json, model, ts, delay) ==
    [json |-> json, model |-> model, ts |-> ts, delay |-> delay]

NoBody == Body(FALSE, << >>, NoTimestamp, << >>)

\* The 429 bodies the backend answers with
PoolBodies ==
    {NoBody,
     Body(TRUE, M_GEMINI_3_PRO_HIGH, NoTimestamp, D_10M),
     Body(TRUE, M_CLAUDE_SONNET, NoTimestamp, << >>)}

\* The statuses reported to mark_credential_error
DisableCodes == {401, 403, 500}

BanCodes == {429}

\* What the Store, the backend's loadCodeAssist and the identity provider
\* answer during one operation.
Envs == [store_ok : BOOLEAN, fetched : {"ok", "denied", "error"}, refreshed : BOOLEAN]

(***************************************************************************)
(* The pool under calls of its interface                                   *)
(***************************************************************************)
EmptyPool(doc) ==
    [doc |-> doc, credential_accounts |-> << >>, current_credential_index |-> 0,
     current_credential_account |-> NoAccount, current_is_entry |-> FALSE,
     call_count |-> 0]

NoCall == [waiting |-> FALSE, model_name |-> << >>, checked_count |-> 0]

\* No get_valid_credential call has just returned.
NoResult ==
    [kind |-> "", why |-> "", model_name |-> << >>, checked_count |-> 0,
     call_count |-> 0,
     account |-> NoAccount, virtual_filename |-> VirtualFilename(NoUser)]

\* What a call returned, with the model it was made for and the call counter
\* it found.
ResultOf(r, model_name) ==
    [kind |-> r.kind, why |-> r.why, model_name |-> model_name,
     checked_count |-> r.checked_count,
     call_count |-> pool.call_count,
     account |-> r.account, virtual_filename |-> r.virtual_filename]

\* A map without keys
EmptyMap == [k \in {} |-> 0]

MaxTasks == 2

Tasks == 1..MaxTasks

\* No call of the tracker is in progress: the operation, its key and model,
\* and the document its _load_stats has read.
NoQuotaCall == [pc |-> "idle", op |-> "", key |-> NoUser, model |-> << >>,
                loaded |-> EmptyMap]

\* No operation of the tracker ran in this step.
NoRun == [op |-> "", key |-> NoUser, model |-> << >>, available |-> TRUE]

\* AntigravityUsageStats.__init__ (lines 43-50) over the usage fields of
\* accounts.toml, keyed by user_id.
Tracker(accounts) ==
    [initialized |-> FALSE, stats_cache |-> EmptyMap, cache_dirty |-> FALSE,
     last_save_time |-> 0, accounts |-> accounts,
     calls |-> [t \in Tasks |-> NoQuotaCall], ran |-> NoRun]

NoTracker == Tracker(EmptyMap)

\* accounts.toml as it is on the disk: the accounts a parse of it yields,
\* and whether the text ends inside an entry, so that no parse succeeds.
Whole(accounts) == [accounts |-> accounts, torn |-> FALSE]

\* No operation is in progress on an absent accounts.toml.
NoStore == [file |-> Whole(<< >>), backups |-> {}, ops |-> << >>]

\* No call of the pool's interface is in progress.
NoCalls == << >>

\* No request has been received: its position, its stream flag, what the
\* handler answered with and the status_code of the HTTPException it raised
\* (0: none).
NoRequest == [pc |-> "idle", is_streaming |-> FALSE, response |-> "", status |-> 0]

\* The backend has not answered with an error: the HTTP status (0: none)
\* and the text of the error body.
NoAnswer == [status |-> 0, text |-> << >>]

BanIdle ==
    /\ banInput = [body |-> NoBody, now |-> 0]
    /\ banResult = [ban_until |-> 0, series |-> {}]
    /\ banPc = "idle"

\* No request is being served.
NoCredentialResult ==
    [bound |-> FALSE, account |-> NoAccount,
     virtual_filename |-> VirtualFilename(NoUser)]

\* The generator's position and locals: attempt, credential_result,
\* error_code (0: None), what it has yielded (out), how many chunks of the
\* running attempt it has forwarded, and whether it returned from line 758.
StreamOf(pc, model, attempt, forwarded, out, credential_result, success) ==
    [pc |-> pc, model |-> model, attempt |-> attempt, forwarded |-> forwarded,
     out |-> out, credential_result |-> credential_result, success |-> success,
     error_code |-> 0]

StreamIdle ==
    /\ stream = StreamOf("idle", << >>, 0, 0, << >>, NoCredentialResult, FALSE)
    /\ stats = << >>
    /\ quota = NoTracker
    /\ store = NoStore
    /\ calls = NoCalls
    /\ request = NoRequest
    /\ backend = NoAnswer

Budget(failures, adds, errors) ==
    [failures |-> failures, adds |-> adds, errors |-> errors]

\* A read of the Store may fail while the environment has failures left.
StoreOk(store_ok) == store_ok \/ budget.failures > 0

Spend(store_ok, adds, errors) ==
    budget' = Budget(budget.failures - (IF store_ok THEN 0 ELSE 1),
                     budget.adds - adds, budget.errors - errors)

\* __init__ and initialize (lines 172-213)
PoolInit ==
    /\ config \in Configs
    /\ clock = 0
    /\ lock = FALSE
    /\ acquiring = NoCall
    /\ returned = NoResult

\* get_valid_credential takes the lock (line 523), runs one activation and
\* either returns, releasing the lock, or calls itself: the inner call
\* waits at line 523 for the lock its caller holds.
AcquireWith(m, env) ==
    \E model_name \in {IF acquiring.waiting THEN acquiring.model_name ELSE m},
       checked_count \in {IF acquiring.waiting THEN acquiring.checked_count ELSE 0} :
      \E r \in {get_valid_credential(pool, config, model_name, checked_count, env, clock)} :
        /\ ~lock
        /\ StoreOk(env.store_ok)
        /\ pool' = r.p
        /\ lock' = (r.kind = "recurse")
        /\ acquiring' = IF r.kind = "recurse"
                        THEN [waiting |-> TRUE, model_name |-> model_name,
                              checked_count |-> r.checked_count]
                        ELSE NoCall
        /\ returned' = ResultOf(r, model_name)
        /\ Spend(env.store_ok, 0, 0)
        /\ UNCHANGED <<config, clock>>

Acquire == \E m \in RequestModels, env \in Envs : AcquireWith(m, env)

\* force_rotate_credential (lines 315-319)
ForceRotate ==
    /\ ~lock
    /\ pool' = rotate_credential(pool)
    /\ returned' = NoResult
    /\ UNCHANGED <<config, clock, lock, acquiring, budget>>

\* increment_call_count (lines 604-606)
IncrementCallCount ==
    /\ pool.call_count < MaxCallCount
    /\ pool' = [pool EXCEPT !.call_count = @ + 1]
    /\ returned' = NoResult
    /\ UNCHANGED <<config, clock, lock, acquiring, budget>>

\* mark_credential_error(userID_<u>, error_code, message with this body)
MarkErrorWith(u, error_code, body, store_ok) ==
    /\ budget.errors > 0
    /\ StoreOk(store_ok)
    /\ pool' = mark_credential_error(pool, config, VirtualFilename(u), error_code,
                                     body, clock, store_ok)
    /\ returned' = NoResult
    /\ Spend(store_ok, 0, 1)
    /\ UNCHANGED <<config, clock, lock, acquiring>>

MarkError ==
    \E u \in Users, error_code \in DisableCodes, store_ok \in BOOLEAN :
        MarkErrorWith(u, error_code, NoBody, store_ok)

MarkRateLimited ==
    \E u \in Users, error_code \in BanCodes, body \in PoolBodies, store_ok \in BOOLEAN :
        MarkErrorWith(u, error_code, body, store_ok)

MarkSuccess ==
    \E u \in Users, store_ok \in BOOLEAN :
        /\ StoreOk(store_ok)
        /\ pool' = mark_credential_success(pool, VirtualFilename(u), clock, store_ok)
        /\ returned' = NoResult
        /\ Spend(store_ok, 0, 0)
        /\ UNCHANGED <<config, clock, lock, acquiring>>

AddAccountWith(a, store_ok) ==
    /\ ~lock
    /\ budget.adds > 0
    /\ StoreOk(store_ok)
    /\ pool' = add_account(pool, [a EXCEPT !.expires_at = clock + ExpiresIn], store_ok)
    /\ returned' = NoResult
    /\ Spend(store_ok, 1, 0)
    /\ UNCHANGED <<config, clock, lock, acquiring>>

AddAccount == \E a \in NewAccounts, store_ok \in BOOLEAN : AddAccountWith(a, store_ok)

\* refresh_accounts (lines 1116-1126)
RefreshAccountsWith(store_ok) ==
    /\ StoreOk(store_ok)
    /\ pool' = discover_credentials(pool, store_ok)
    /\ returned' = NoResult
    /\ Spend(store_ok, 0, 0)
    /\ UNCHANGED <<config, clock, lock, acquiring>>

RefreshAccounts == \E store_ok \in BOOLEAN : RefreshAccountsWith(store_ok)

Tick ==
    /\ clock < MaxTicks * TickSeconds
    /\ clock' = clock + TickSeconds
    /\ returned' = NoResult
    /\ UNCHANGED <<config, pool, lock, acquiring, budget>>

\* The pool's membership and rotation: every operation but the rate-limit
\* path, on a still clock.
Init ==
    /\ PoolInit
    /\ pool \in {discover_credentials(EmptyPool(d), TRUE) : d \in InitialDocs(MaxUsers)}
    /\ budget = Budget(MaxStoreFailures, 0, MaxErrors)
    /\ BanIdle
    /\ StreamIdle

Next ==
    /\ \/ Acquire
       \/ ForceRotate
       \/ IncrementCallCount
       \/ MarkError
       \/ RefreshAccounts
    /\ UNCHANGED <<banVars, streamVars>>

Spec == Init /\ [][Next]_vars

\* The pool's ledger of accounts: accounts are added, succeed and fail.
InitAccounts ==
    /\ PoolInit
    /\ pool \in {discover_credentials(EmptyPool(d), TRUE) : d \in VerifiedDocs}
    /\ budget = Budget(MaxStoreFailures, MaxAdds, MaxErrors)
    /\ BanIdle
    /\ StreamIdle

NextAccounts ==
    /\ \/ AddAccount
       \/ MarkSuccess
       \/ MarkError
       \/ RefreshAccounts
    /\ UNCHANGED <<banVars, streamVars>>

SpecAccounts == InitAccounts /\ [][NextAccounts]_vars

\* The ban ledger in the pool: rate-limit errors, acquire and rotation as
\* the clock advances.
InitBans ==
    /\ PoolInit
    /\ pool \in {discover_credentials(EmptyPool(d), TRUE) : d \in VerifiedDocs}
    /\ budget = Budget(MaxStoreFailures, 0, MaxBans)
    /\ BanIdle
    /\ StreamIdle

NextBans ==
    /\ \/ Acquire
       \/ ForceRotate
       \/ MarkRateLimited
       \/ Tick
    /\ UNCHANGED <<banVars, streamVars>>

SpecBans == InitBans /\ [][NextBans]_vars

(***************************************************************************)
(* Properties of the pool                                                  *)
(***************************************************************************)
\* The step is a call get_valid_credential(model_name) that ran.
AcquireStep(model_name) ==
    /\ returned'.kind # ""
    /\ returned'.model_name = model_name

\* The step is mark_credential_error(userID_<u>, error_code, body).
MarkErrorStep(u, error_code, body, store_ok) ==
    /\ budget'.errors = budget.errors - 1
    /\ budget'.failures = budget.failures - (IF store_ok THEN 0 ELSE 1)
    /\ pool' = mark_credential_error(pool, config, VirtualFilename(u), error_code,
                                     body, clock, store_ok)

\* The account of the enabled list with this user_id in pool p
InMemory(p, u) ==
    p.credential_accounts[IndexOfEntry(p.credential_accounts, VirtualFilename(u))].account

Listed(p, u) == IndexOfEntry(p.credential_accounts, VirtualFilename(u)) # 0

AllBanned(p, model_name, now) ==
    /\ \A i \in 1..Len(p.credential_accounts) :
           is_banned(p.credential_accounts[i].account, model_name, now)
    /\ is_banned(p.current_credential_account, model_name, now)

\* C1: with N > 1 enabled accounts all banned for the model's family, a
\* fresh acquire ends by returning no credential once N accounts have been
\* checked, and the pool lock is free again; it never hangs.
C1_AllBannedAcquireFails ==
    [][\A m \in RequestModels :
          (/\ AcquireStep(m)
           /\ ~lock
           /\ Len(pool.credential_accounts) > 1
           /\ AllBanned(pool, m, clock))
          => (/\ returned'.kind = "none"
              /\ returned'.checked_count = Len(pool.credential_accounts)
              /\ ~lock')]_vars

\* C4: a reload whose read of the account document fails leaves the enabled
\* list, the cursor and the current account as they were.
C4_FailedReadKeepsPool ==
    [][(/\ budget'.failures = budget.failures - 1
        /\ pool' = discover_credentials(pool, FALSE))
          => (/\ pool'.credential_accounts = pool.credential_accounts
              /\ pool'.current_credential_index = pool.current_credential_index
              /\ pool'.current_credential_account = pool.current_credential_account)]_vars

\* C5: the enabled list is empty, or the cursor is within it and the entry
\* at the cursor is an enabled account.
C5_CursorInRange ==
    \/ pool.credential_accounts = << >>
    \/ /\ 0 <= pool.current_credential_index
       /\ pool.current_credential_index < Len(pool.credential_accounts)
       /\ ~get_credential_state(
              pool.doc,
              pool.credential_accounts[pool.current_credential_index + 1].virtual_filename,
              TRUE).disabled

\* C6: an acquire during which the project-id verification of the current
\* account A is denied disables A, takes it off the enabled list, and does
\* not return A.
C6_DeniedAccountNotReturned ==
    [][\A m \in RequestModels, env \in Envs :
          (/\ AcquireStep(m)
           /\ ~lock
           /\ env.store_ok
           /\ env.fetched = "denied"
           /\ ~config.skip_project_verification
           /\ ~should_rotate(pool, config)
           /\ pool.current_credential_account # NoAccount
           /\ ~pool.current_credential_account.project_id
           /\ Listed(pool, pool.current_credential_account.user_id)
           /\ \E r \in {get_valid_credential(pool, config, m, 0, env, clock)} :
                 /\ pool' = r.p
                 /\ returned' = ResultOf(r, m))
          => \E A \in {pool.current_credential_account} :
                 /\ ~Listed(pool', A.user_id)
                 /\ get_credential_state(pool'.doc, VirtualFilename(A.user_id),
                                         TRUE).disabled
                 /\ returned'.account.user_id # A.user_id]_vars

C8_NextAcquireSkipsBanned ==
    [][\A m \in RequestModels :
          (/\ AcquireStep(m)
           /\ ~lock
           /\ clock < ExpiresIn - RefreshMarginSeconds
           /\ pool.current_credential_account # NoAccount
           /\ is_banned(pool.current_credential_account, m, clock))
          => LET A == pool.current_credential_account
                 others == {i \in 1..Len(pool.credential_accounts) :
                               LET b == pool.credential_accounts[i].account
                               IN  b.user_id # A.user_id /\ ~is_banned(b, m, clock)}
             IN  /\ returned'.account.user_id # A.user_id
                 /\ IF others = {} THEN returned'.kind = "none"
                    ELSE /\ returned'.kind = "ok"
                         /\ \E i \in others :
                               returned'.account.user_id
                                   = pool.credential_accounts[i].account.user_id]_vars

\* The keys of the enabled list of pool p, in order
Keys(p) == [i \in 1..Len(p.credential_accounts) |-> p.credential_accounts[i].virtual_filename]

\* C11: with N > 1 enabled accounts, an acquire during which no account is
\* disabled and no ban makes it rotate advances the cursor by exactly one
\* position modulo N, resets the call counter to 0 and returns the account
\* at the new position when the counter has reached the threshold, and
\* leaves the cursor and the counter alone when it has not.
C11_RotationAtThreshold ==
    [][\A m \in RequestModels :
          (/\ AcquireStep(m)
           /\ ~lock
           /\ Len(pool.credential_accounts) > 1
           /\ returned'.kind = "ok"
           /\ Keys(pool') = Keys(pool))
          => LET N == Len(pool.credential_accounts)
                 next == (pool.current_credential_index + 1) % N
             IN  IF pool.call_count >= config.calls_per_rotation
                 THEN /\ pool'.current_credential_index = next
                      /\ pool'.call_count = 0
                      /\ returned'.virtual_filename = Keys(pool)[next + 1]
                      /\ returned'.account.user_id
                             = pool.credential_accounts[next + 1].account.user_id
                 ELSE /\ pool'.current_credential_index = pool.current_credential_index
                      /\ pool'.call_count = pool.call_count]_vars

\* An acquire found the counter at the threshold on the first of two
\* accounts and returned the second.
C11_Witness ==
    /\ returned.kind = "ok"
    /\ returned.call_count >= config.calls_per_rotation
    /\ Len(pool.credential_accounts) = 2
    /\ pool.current_credential_index = 1
    /\ pool.call_count = 0
    /\ returned.account.user_id = "u2"

(***************************************************************************)
(* SpecLock: the operations that take _operation_lock and those that do    *)
(* not, around a get_valid_credential call that holds it                   *)
(***************************************************************************)
InitLock ==
    /\ PoolInit
    /\ pool \in {discover_credentials(EmptyPool(d), TRUE) : d \in VerifiedDocs}
    /\ budget = Budget(0, 0, MaxBans)
    /\ BanIdle
    /\ StreamIdle

NextLock ==
    /\ \/ Acquire
       \/ ForceRotate
       \/ IncrementCallCount
       \/ MarkRateLimited
       \/ MarkError
       \/ RefreshAccounts
    /\ UNCHANGED <<banVars, streamVars>>

SpecLock == InitLock /\ [][NextLock]_vars

\* The fields of the pool the lock is there to protect
Guarded(p) ==
    <<Keys(p), p.current_credential_index, p.call_count,
      p.current_credential_account.user_id>>

\* C21: while an operation holds the pool lock, no step of another
\* operation changes the enabled list, the cursor, the call counter or the
\* binding of the current account.
C21_MutationsUnderLock ==
    [][lock => Guarded(pool') = Guarded(pool)]_vars

\* The step is a call of force_rotate_credential.
ForceRotateStep ==
    /\ ~lock
    /\ pool' = rotate_credential(pool)
    /\ returned' = NoResult
    /\ budget' = budget

RECURSIVE TokenDocs(_)
TokenDocs(n) ==
    IF n = 0 THEN {<< >>}
    ELSE TokenDocs(n - 1) \cup
         {Append(d, Account(UserName(n), t, x, TRUE)) :
              d \in {y \in TokenDocs(n - 1) : Len(y) = n - 1},
              t \in BOOLEAN, x \in {ExpiresIn, MissingExpiry}}

InitTokens ==
    /\ PoolInit
    /\ pool \in {discover_credentials(EmptyPool(d), TRUE) : d \in TokenDocs(MaxUsers)}
    /\ budget = Budget(MaxStoreFailures, 0, 0)
    /\ BanIdle
    /\ StreamIdle

NextTokens ==
    /\ \/ Acquire
       \/ ForceRotate
       \/ IncrementCallCount
       \/ Tick
    /\ UNCHANGED <<banVars, streamVars>>

SpecTokens == InitTokens /\ [][NextTokens]_vars

\* The account whose token an acquire on pool p checks: the current account
\* after the rotation by call count and the loading (lines 534-540).
Selected(p, cfg) ==
    LET p2 == IF should_rotate(p, cfg) THEN rotate_credential(p) ELSE p
    IN  IF p2.current_credential_account = NoAccount
        THEN load_current_credential(p2).current_credential_account
        ELSE p2.current_credential_account

\* C12: an account that acquire returns is not expired when it is returned;
\* an account acquire found expired is returned only in calls in which the
\* identity provider answered the refresh with success, and then carries an
\* access token and the expiry of the new token.
C12_ExpiredIsRefreshed ==
    [][\A m \in RequestModels, env \in Envs :
          (/\ AcquireStep(m)
           /\ ~lock
           /\ pool.credential_accounts # << >>
           /\ returned'.kind = "ok"
           /\ \E r \in {get_valid_credential(pool, config, m, 0, env, clock)} :
                 /\ pool' = r.p
                 /\ returned' = ResultOf(r, m))
          => /\ ~is_token_expired(returned'.account, clock)
             /\ is_token_expired(Selected(pool, config), clock)
                   => /\ env.refreshed
                      /\ returned'.account.user_id = Selected(pool, config).user_id
                      /\ returned'.account.access_token
                      /\ returned'.account.expires_at = clock + ExpiresIn
                      /\ pool'.current_credential_account = returned'.account]_vars

\* An acquire made when every token had expired returned a refreshed account.
C12_Witness ==
    /\ returned.kind = "ok"
    /\ clock = TickSeconds
    /\ returned.account.access_token
    /\ returned.account.expires_at = clock + ExpiresIn

\* C13: an acquire whose current account A is expired and whose refresh of
\* A fails disables A, takes it off the enabled list and returns, from the
\* same call, another enabled account whose token is good when there is
\* one; it returns no credential only when there is none.
C13_RefreshFailureFailsOver ==
    [][\A m \in RequestModels, env \in Envs :
          (/\ AcquireStep(m)
           /\ ~lock
           /\ env.store_ok
           /\ ~env.refreshed
           /\ pool.credential_accounts # << >>
           /\ pool.current_credential_index < Len(pool.credential_accounts)
           /\ Selected(pool, config) # NoAccount
           /\ is_token_expired(Selected(pool, config), clock)
           /\ \E r \in {get_valid_credential(pool, config, m, 0, env, clock)} :
                 /\ pool' = r.p
                 /\ returned' = ResultOf(r, m))
          => LET A == Selected(pool, config)
                 usable == {i \in 1..Len(pool.credential_accounts) :
                               LET b == pool.credential_accounts[i].account
                               IN  /\ b.user_id # A.user_id
                                   /\ ~is_token_expired(b, clock)}
             IN  /\ ~Listed(pool', A.user_id)
                 /\ get_credential_state(pool'.doc, VirtualFilename(A.user_id),
                                         TRUE).disabled
                 /\ ~lock'
                 /\ IF usable = {} THEN returned'.kind = "none"
                    ELSE /\ returned'.kind = "ok"
                         /\ \E i \in usable :
                               returned'.account.user_id
                                   = pool.credential_accounts[i].account.user_id]_vars

(***************************************************************************)
(* SpecErrors: mark_credential_error on every status                       *)
(***************************************************************************)
MaxRecorded == 2

\* The statuses the router classifies (openai_router.py lines 59-83)
ErrorCodes == {400, 401, 403, 404, 429, 500}

RecordError ==
    \E u \in Users, error_code \in ErrorCodes, store_ok \in BOOLEAN :
        \E body \in IF error_code = 429 THEN PoolBodies ELSE {NoBody} :
            MarkErrorWith(u, error_code, body, store_ok)

InitErrors ==
    /\ PoolInit
    /\ pool \in {discover_credentials(EmptyPool(d), TRUE) : d \in VerifiedDocs}
    /\ budget = Budget(MaxStoreFailures, 0, MaxRecorded)
    /\ BanIdle
    /\ StreamIdle

NextErrors ==
    /\ \/ RecordError
       \/ ForceRotate
       \/ RefreshAccounts
    /\ UNCHANGED <<banVars, streamVars>>

SpecErrors == InitErrors /\ [][NextErrors]_vars

\* The state fields the Store holds for the account u of pool p
Stored(p, u) == get_credential_state(p.doc, VirtualFilename(u), TRUE)

InDoc(p, u) == IndexOfUser(p.doc, u) # 0

\* The ban of the account for the series is on record and has elapsed.
Elapsed(account, series, now) ==
    /\ series # NoSeries
    /\ account.banned_until[series] # 0
    /\ now >= account.banned_until[series]

\* C32: the first _check_series_ban made on an account after its ban for
\* the model's series has elapsed clears the record: once the acquire that
\* made the check is over, with the Store readable, neither the account in
\* memory nor its entry in the document has an expiry for the series.
C32_ElapsedBanCleared ==
    [][\A m \in RequestModels :
          (/\ AcquireStep(m)
           /\ ~lock
           /\ budget' = budget
           /\ Selected(pool, config) # NoAccount
           /\ Elapsed(Selected(pool, config), identify_model_series(m), clock))
          => \E u \in {Selected(pool, config).user_id},
                series \in {identify_model_series(m)} :
                /\ InDoc(pool', u)
                      => pool'.doc[IndexOfUser(pool'.doc, u)].banned_until[series] = 0
                /\ Listed(pool', u) => InMemory(pool', u).banned_until[series] = 0]_vars

\* C37: the credential get_valid_credential returns is one account with
\* its own state key, and that account is enabled: it is in the enabled
\* list and the Store does not have it disabled.
C37_ReturnedIsEnabled ==
    returned.kind = "ok"
       => \E u \in {returned.account.user_id} :
             /\ returned.virtual_filename = VirtualFilename(u)
             /\ Listed(pool, u)
             /\ ~Stored(pool, u).disabled

\* The step is add_account(a) stamped at the clock, its read of the
\* document succeeding or not.
AddAccountStep(a, store_ok) ==
    /\ budget'.adds = budget.adds - 1
    /\ budget'.failures = budget.failures - (IF store_ok THEN 0 ELSE 1)
    /\ pool' = add_account(pool, [a EXCEPT !.expires_at = clock + ExpiresIn], store_ok)

\* C35: an add_account whose load of the account document fails refuses:
\* the document is not written, no state record is created, and the
\* enabled list, the cursor and the call counter are as they were.
C35_FailedLoadRefusesAdd ==
    [][\A a \in NewAccounts :
          AddAccountStep(a, FALSE)
          => (/\ pool'.doc = pool.doc
              /\ pool'.credential_accounts = pool.credential_accounts
              /\ pool'.current_credential_index = pool.current_credential_index
              /\ pool'.call_count = pool.call_count)]_vars

\* The accounts POST /accounts/add hands to add_account: AddAccountRequest
\* has tokens, expires_in and a project id, and neither a user_id nor a
\* timestamp (routes/antigravity_admin.py lines 144-171).
AdminAccounts ==
    {Account(NoUser, t, MissingExpiry, TRUE) : t \in BOOLEAN}

MaxAdminAdds == 2

AdminAdd ==
    \E a \in AdminAccounts, store_ok \in BOOLEAN :
        /\ ~lock
        /\ budget.adds > 0
        /\ StoreOk(store_ok)
        /\ pool' = add_account(pool, a, store_ok)
        /\ returned' = NoResult
        /\ Spend(store_ok, 1, 0)
        /\ UNCHANGED <<config, clock, lock, acquiring>>

\* The pool as the admin route and the OAuth login add accounts to it.
InitAdmin ==
    /\ PoolInit
    /\ pool \in {discover_credentials(EmptyPool(d), TRUE) : d \in VerifiedDocs}
    /\ budget = Budget(MaxStoreFailures, MaxAdminAdds, MaxErrors)
    /\ BanIdle
    /\ StreamIdle

NextAdmin ==
    /\ \/ AdminAdd
       \/ AddAccount
       \/ MarkError
       \/ ForceRotate
       \/ RefreshAccounts
    /\ UNCHANGED <<banVars, streamVars>>

SpecAdmin == InitAdmin /\ [][NextAdmin]_vars

\* The step is add_account(a) from the admin route.
AdminAddStep(a, store_ok) ==
    /\ budget'.adds = budget.adds - 1
    /\ budget'.failures = budget.failures - (IF store_ok THEN 0 ELSE 1)
    /\ pool' = add_account(pool, a, store_ok)

\* The entries of the enabled list of pool p with this state key
WithKey(p, virtual_filename) ==
    {i \in 1..Len(p.credential_accounts) :
        p.credential_accounts[i].virtual_filename = virtual_filename}

\* After add_account(a) the account is in the document; when its state is
\* disabled the enabled list is as it was; otherwise the list has exactly
\* one entry with the account's key, in the place of the former entry with
\* that key when there was one and at the end when there was none.
Added(a) ==
    \E key \in {VirtualFilename(a.user_id)} :
        /\ \E i \in 1..Len(pool'.doc) : pool'.doc[i].user_id = a.user_id
        /\ IF get_credential_state(pool'.doc, key, TRUE).disabled
           THEN pool'.credential_accounts = pool.credential_accounts
           ELSE /\ Cardinality(WithKey(pool', key)) = 1
                /\ WithKey(pool, key) # {} => WithKey(pool', key) = WithKey(pool, key)
                /\ WithKey(pool, key) = {}
                      => Len(pool'.credential_accounts)
                             = Len(pool.credential_accounts) + 1

\* C40: no two entries of the enabled list share a state key, and
\* add_account(a) leaves exactly one entry with the key of a, replacing the
\* entry in place on a repeated add, unless the state of a is disabled, in
\* which case a is persisted and the list is not touched.
C40_AddedExactlyOnce ==
    /\ [](\A i, j \in 1..Len(pool.credential_accounts) :
             i # j => pool.credential_accounts[i].virtual_filename
                          # pool.credential_accounts[j].virtual_filename)
    /\ [][/\ \A a \in NewAccounts, store_ok \in BOOLEAN :
                AddAccountStep(a, store_ok) => Added(a)
          /\ \A a \in AdminAccounts, store_ok \in BOOLEAN :
                AdminAddStep(a, store_ok) => Added(a)]_vars

\* C14: mark_credential_error with status 429 or 401 never disables the
\* account, whatever the configuration: the enabled list is as it was, the
\* persisted disabled flag is not set by the call, and with the Store
\* readable the status is in the account's recorded error codes.
C14_NoDisableOn429Or401 ==
    [][\A u \in Users, error_code \in {401, 429}, body \in PoolBodies \cup {NoBody},
          store_ok \in BOOLEAN :
          MarkErrorStep(u, error_code, body, store_ok)
          => /\ Keys(pool') = Keys(pool)
             /\ Stored(pool', u).disabled => Stored(pool, u).disabled
             /\ (store_ok /\ InDoc(pool, u))
                   => /\ InDoc(pool', u)
                      /\ error_code \in Stored(pool', u).error_codes]_vars

\* With auto-disable on and 401 and 429 in its set, an enabled account has
\* a 401 or a 429 on record.
C14_Witness ==
    \E u \in Users :
        /\ Listed(pool, u)
        /\ InDoc(pool, u)
        /\ ~Stored(pool, u).disabled
        /\ Stored(pool, u).error_codes \cap {401, 429} # {}
        /\ config.auto_ban_enabled
        /\ {401, 429} \subseteq config.auto_ban_error_codes

\* C15: with the Store readable, mark_credential_error on an enabled
\* account with status 403 or 404 sets the persisted disabled flag and takes
\* the account off the enabled list, whatever the configuration; with any
\* other status but 401 and 429 it does so exactly if auto-disable is on and
\* the status is in the configured set, and otherwise leaves flag and list
\* as they were.
C15_DisableOnInvalidOrConfigured ==
    [][\A u \in Users, error_code \in ErrorCodes \ {401, 429} :
          (/\ MarkErrorStep(u, error_code, NoBody, TRUE)
           /\ InDoc(pool, u)
           /\ ~Stored(pool, u).disabled)
          => IF \/ error_code \in {403, 404}
                \/ /\ config.auto_ban_enabled
                   /\ error_code \in config.auto_ban_error_codes
             THEN /\ Stored(pool', u).disabled
                  /\ ~Listed(pool', u)
             ELSE /\ ~Stored(pool', u).disabled
                  /\ Keys(pool') = Keys(pool)]_vars

\* With auto-disable off, an account with a 404 on record is disabled and
\* off the list while the other account is enabled.
C15_Witness ==
    \E u \in Users :
        /\ ~config.auto_ban_enabled
        /\ InDoc(pool, u)
        /\ Stored(pool, u).disabled
        /\ 404 \in Stored(pool, u).error_codes
        /\ ~Listed(pool, u)
        /\ pool.credential_accounts # << >>

(***************************************************************************)
(* SpecSuccess: mark_credential_success among recorded errors, as the      *)
(* clock advances                                                          *)
(***************************************************************************)
InitSuccess ==
    /\ PoolInit
    /\ pool \in {discover_credentials(EmptyPool(d), TRUE) : d \in VerifiedDocs}
    /\ budget = Budget(MaxStoreFailures, 0, MaxRecorded)
    /\ BanIdle
    /\ StreamIdle

NextSuccess ==
    /\ \/ MarkSuccess
       \/ RecordError
       \/ RefreshAccounts
       \/ Tick
    /\ UNCHANGED <<banVars, streamVars>>

SpecSuccess == InitSuccess /\ [][NextSuccess]_vars

\* The step is mark_credential_success(userID_<u>).
MarkSuccessStep(u, store_ok) ==
    /\ budget'.errors = budget.errors
    /\ budget'.failures = budget.failures - (IF store_ok THEN 0 ELSE 1)
    /\ clock' = clock
    /\ pool' = mark_credential_success(pool, VirtualFilename(u), clock, store_ok)

\* C25: mark_credential_success(key) changes no entry of the document but
\* the one of key, leaves that entry's disabled flag as it was and its
\* last_success no earlier than it was, and leaves the enabled list alone;
\* with the Store readable and the account in the document, the entry's
\* error_codes are empty and its last_success is the time of the call,
\* whether or not the history was already empty.
C25_SuccessClearsHistory ==
    [][\A u \in Users, store_ok \in BOOLEAN :
          MarkSuccessStep(u, store_ok)
          => /\ Len(pool'.doc) = Len(pool.doc)
             /\ \A i \in 1..Len(pool.doc) :
                   pool.doc[i].user_id # u => pool'.doc[i] = pool.doc[i]
             /\ Stored(pool', u).disabled = Stored(pool, u).disabled
             /\ Stored(pool', u).last_success >= Stored(pool, u).last_success
             /\ pool'.credential_accounts = pool.credential_accounts
             /\ (store_ok /\ InDoc(pool, u))
                   => /\ Stored(pool', u).error_codes = {}
                      /\ Stored(pool', u).last_success = clock]_vars

\* A disabled account with an empty history and a success stamped after
\* the clock advanced, next to an account whose success was stamped before.
C25_Witness ==
    \E u \in Users, v \in Users :
        /\ InDoc(pool, u)
        /\ InDoc(pool, v)
        /\ Stored(pool, u).disabled
        /\ Stored(pool, u).error_codes = {}
        /\ Stored(pool, u).last_success = TickSeconds
        /\ Stored(pool, v).last_success = 0

(***************************************************************************)
(* SpecStream: antigravity_stream_generator (openai_router.py 682-801)     *)
(* serving one streaming request against the pool                          *)
(***************************************************************************)
max_retries == 5

MaxChunks == 2

\* _extract_error_code_from_exception returns None
NoCode == 0

T_403 == <<"4", "0", "3">>

T_401 == <<"4", "0", "1">>

T_404 == <<"4", "0", "4">>

T_429 == <<"4", "2", "9">>

T_500 == <<"5", "0", "0">>

T_400 == <<"4", "0", "0">>

\* _extract_error_code_from_exception (lines 59-83): substring tests on the
\* exception's message, in this order.
extract_error_code_from_exception(error_message) ==
    IF Contains(error_message, T_403) THEN 403
    ELSE IF Contains(error_message, T_401) THEN 401
    ELSE IF Contains(error_message, T_404) THEN 404
    ELSE IF Contains(error_message, T_429) THEN 429
    ELSE IF Contains(error_message, T_500) THEN 500
    ELSE IF Contains(error_message, T_400) THEN 400
    ELSE NoCode

\* _check_should_retry_antigravity (lines 86-98)
check_should_retry_antigravity(error_code, auto_ban_error_codes) ==
    IF error_code = NoCode THEN FALSE
    ELSE error_code \in auto_ban_error_codes

\* An exception: str(e), and the 429 body the message holds.
Failure(error_message, body) == [error_message |-> error_message, body |-> body]

\* "403 Forbidden - ...", "API 请求失败 (429): {...}", "API 请求失败 (400): ..."
\* of stream_generate_content, "list index out of range", and a transport
\* error that names a byte count ("... received 500 bytes ...").
E_FORBIDDEN == Failure(T_403 \o <<" ", "F">>, NoBody)

E_RATE_LIMITED ==
    Failure(<<"(">> \o T_429 \o <<")">>,
            Body(TRUE, M_GEMINI_3_PRO_HIGH, NoTimestamp, D_10M))

E_BAD_REQUEST == Failure(<<"(">> \o T_400 \o <<")">>, NoBody)

E_INDEX == Failure(<<"l", "i", "s", "t">>, NoBody)

E_TRANSPORT == Failure(<<"r", "e", "c", "v", " ">> \o T_500, NoBody)

\* What stream_generate_content raises before its first chunk, and what
\* the iteration over the stream raises at any point.
StatusFailures == {E_FORBIDDEN, E_RATE_LIMITED, E_BAD_REQUEST}

TransportFailures == {E_TRANSPORT, Failure(<<"r", "e", "s", "e", "t">>, NoBody)}

\* The chunks the generator yields
ErrorChunk == "error"

Done == "[DONE]"

\* The documents of a request's pool: tokens and project ids may be missing
StreamDocs == Docs(MaxUsers, BOOLEAN, BOOLEAN)

InitStream ==
    /\ PoolInit
    /\ pool \in {discover_credentials(EmptyPool(d), TRUE) : d \in StreamDocs}
    /\ budget = Budget(0, 0, 0)
    /\ BanIdle
    /\ stream \in {StreamOf("acquire", m, 0, 0, << >>, NoCredentialResult, FALSE) :
                      m \in RequestModels}
    /\ stats = << >>
    /\ quota = NoTracker
    /\ store = NoStore
    /\ calls = NoCalls
    /\ request = NoRequest
    /\ backend = NoAnswer

\* lines 760-799: the except branch of attempt stream.attempt, entered with
\* the pool p.
StreamExcept(p, failure) ==
    \E error_code \in {extract_error_code_from_exception(failure.error_message)},
       cr \in {stream.credential_result} :
      IF error_code # NoCode /\ ~cr.bound
      THEN /\ pool' = p
           /\ stream' = [stream EXCEPT !.pc = "raised", !.error_code = error_code]
      ELSE \E p1 \in {IF error_code # NoCode
                      THEN mark_credential_error(p, config, cr.virtual_filename,
                                                 error_code, failure.body, clock, TRUE)
                      ELSE p} :
             IF /\ check_should_retry_antigravity(error_code,
                                                  config.auto_ban_error_codes)
                /\ stream.attempt < max_retries - 1
             THEN /\ pool' = rotate_credential(p1)
                  /\ stream' = [stream EXCEPT !.pc = "acquire", !.attempt = @ + 1,
                                              !.forwarded = 0,
                                              !.error_code = error_code]
             ELSE /\ pool' = p1
                  /\ stream' = [stream EXCEPT !.pc = "closed",
                                              !.error_code = error_code,
                                              !.out = @ \o <<ErrorChunk, Done>>]

\* lines 689-706: get_valid_credential returned None and left the pool p
StreamNoCredentialRetrying(p) ==
    /\ pool' = rotate_credential(p)
    /\ stream' = [stream EXCEPT !.pc = "acquire", !.attempt = @ + 1]

StreamNoCredential(p) ==
    /\ pool' = p
    /\ stream' = [stream EXCEPT !.pc = "closed",
                                !.credential_result = NoCredentialResult,
                                !.out = @ \o <<ErrorChunk, Done>>]

\* lines 687-718: the head of an attempt.  The call of get_valid_credential
\* that calls itself waits for the lock its caller holds.
StreamAcquire ==
    \E env \in Envs :
      \E r \in {get_valid_credential(pool, config, stream.model, 0, env, clock)} :
        \E cr \in {[bound |-> TRUE, account |-> r.account,
                    virtual_filename |-> r.virtual_filename]} :
            /\ stream.pc = "acquire"
            /\ ~lock
            /\ StoreOk(env.store_ok)
            /\ returned' = ResultOf(r, stream.model)
            /\ Spend(env.store_ok, 0, 0)
            /\ UNCHANGED <<config, clock, stats, quota, store, calls, request, backend>>
            /\ CASE r.kind = "recurse" ->
                      /\ pool' = r.p
                      /\ lock' = TRUE
                      /\ acquiring' = [waiting |-> TRUE, model_name |-> stream.model,
                                       checked_count |-> r.checked_count]
                      /\ UNCHANGED stream
                 [] r.kind = "none" ->
                      /\ StreamNoCredential(r.p)
                      /\ UNCHANGED <<lock, acquiring>>
                 [] r.kind = "raise" ->
                      /\ StreamExcept(r.p, E_INDEX)
                      /\ UNCHANGED <<lock, acquiring>>
                 [] r.kind = "ok" /\ ~r.account.access_token ->
                      /\ pool' = rotate_credential(r.p)
                      /\ stream' = [stream EXCEPT
                                        !.credential_result = cr,
                                        !.attempt = @ + 1,
                                        !.pc = IF stream.attempt + 1 < max_retries
                                               THEN "acquire" ELSE "closed"]
                      /\ UNCHANGED <<lock, acquiring>>
                 [] OTHER ->
                      /\ pool' = [r.p EXCEPT !.call_count = @ + 1]
                      /\ stream' = [stream EXCEPT !.credential_result = cr,
                                                  !.error_code = NoCode,
                                                  !.pc = "streaming"]
                      /\ UNCHANGED <<lock, acquiring>>

\* record_antigravity_call (antigravity_usage_stats.py lines 369-372): one
\* more successful call of this model on record for this key
record_antigravity_call(recorded, virtual_filename, model_name) ==
    Append(recorded, [virtual_filename |-> virtual_filename, model_name |-> model_name])

\* lines 737-744: a chunk of the backend's stream is forwarded
StreamChunk ==
    /\ stream.pc = "streaming"
    /\ stream.forwarded < MaxChunks
    /\ stream' = [stream EXCEPT !.forwarded = @ + 1, !.out = Append(@, "chunk")]
    /\ UNCHANGED <<poolVars, banVars, stats, quota, store, calls, request, backend>>

\* lines 746-758: the backend's stream ends
StreamFinish ==
    /\ stream.pc = "streaming"
    /\ pool' = mark_credential_success(pool, stream.credential_result.virtual_filename,
                                       clock, TRUE)
    /\ stats' = record_antigravity_call(stats,
                                        stream.credential_result.virtual_filename,
                                        stream.model)
    /\ stream' = [stream EXCEPT !.pc = "closed", !.success = TRUE,
                                !.out = Append(@, "finish")]
    /\ returned' = NoResult
    /\ UNCHANGED <<config, clock, lock, acquiring, budget, banVars, quota, store, calls, request, backend>>

\* stream_generate_content raises: a status failure before the first
\* chunk, a transport failure at any point.
StreamFail ==
    \E failure \in StatusFailures \cup TransportFailures :
        /\ stream.pc = "streaming"
        /\ failure \in StatusFailures => stream.forwarded = 0
        /\ StreamExcept(pool, failure)
        /\ returned' = NoResult
        /\ UNCHANGED <<config, clock, lock, acquiring, budget, banVars, stats, quota, store, calls, request, backend>>

NextStream ==
    \/ StreamAcquire /\ UNCHANGED banVars
    \/ StreamChunk
    \/ StreamFinish
    \/ StreamFail

SpecStream == InitStream /\ [][NextStream]_vars

\* The event loop runs the generator whenever it can take a step.
SpecStreamLive == SpecStream /\ WF_vars(NextStream)

\* The generator has returned or has raised.
Terminated == stream.pc \in {"closed", "raised"}

\* C16: a request makes its acquires and backend calls in attempts 0 .. 4
\* only, and it eventually terminates.
C16_BoundedAttemptsTerminate ==
    /\ [](stream.pc \in {"acquire", "streaming"} => stream.attempt < max_retries)
    /\ <>Terminated

\* C17: when an attempt's get_valid_credential returns no credential or
\* raises, the request closes in that step with an error chunk and the
\* termination marker: the pool is as the acquire left it (no rotation), no
\* backend call is made and no further attempt is started.
C17_AcquireFailureEndsRequest ==
    [][(/\ stream.pc = "acquire"
        /\ returned'.kind \in {"none", "raise"})
          => /\ stream'.pc = "closed"
             /\ ~stream'.success
             /\ stream'.out = stream.out \o <<ErrorChunk, Done>>
             /\ stream'.attempt = stream.attempt
             /\ stats' = stats
             /\ \E env \in Envs :
                   \E r \in {get_valid_credential(pool, config, stream.model, 0,
                                                  env, clock)} :
                       /\ returned' = ResultOf(r, stream.model)
                       /\ pool' = r.p]_vars

\* A request was closed by an acquire that failed in a later attempt while
\* attempts remained.
C17_Witness ==
    /\ stream.pc = "closed"
    /\ returned.kind = "none"
    /\ stream.attempt > 0
    /\ stream.attempt < max_retries - 1

\* The key of the account a credential result holds
KeyOf(credential_result) == VirtualFilename(credential_result.account.user_id)

\* C18: when an attempt fails before its first chunk with classified status
\* s, mark_credential_error(key, s, msg) is called with the key of the
\* account that made the attempt; then, if s is in the auto-retry set and
\* the attempt is not the last, force_rotate_credential is called and the
\* next attempt starts; otherwise the request closes with the error, without
\* rotation and without a further attempt.
C18_PreFirstByteFailure ==
    [][\A s \in ErrorCodes :
          (/\ stream.pc = "streaming"
           /\ stream.forwarded = 0
           /\ stream'.pc # "streaming"
           /\ ~stream'.success
           /\ stream'.error_code = s)
          => \E p1 \in {mark_credential_error(
                            pool, config, KeyOf(stream.credential_result), s,
                            IF s = 429 THEN E_RATE_LIMITED.body ELSE NoBody,
                            clock, TRUE)} :
                IF s \in config.auto_ban_error_codes /\ stream.attempt < max_retries - 1
                THEN /\ pool' = rotate_credential(p1)
                     /\ stream'.pc = "acquire"
                     /\ stream'.attempt = stream.attempt + 1
                     /\ stream'.out = stream.out
                ELSE /\ pool' = p1
                     /\ stream'.pc = "closed"
                     /\ stream'.attempt = stream.attempt
                     /\ stream'.out = stream.out \o <<ErrorChunk, Done>>]_vars

\* C19: the step that ends a fully successful attempt calls
\* mark_credential_success and records one call of the request's model in
\* the usage statistics, both with the key of the account that served the
\* attempt, records no error, and closes the request as a success.
C19_SuccessRecordedOnce ==
    [][(stream.pc = "streaming" /\ stream'.success)
          => /\ pool' = mark_credential_success(pool, KeyOf(stream.credential_result),
                                                clock, TRUE)
             /\ stats' = record_antigravity_call(stats, KeyOf(stream.credential_result),
                                                 stream.model)
             /\ Len(stats') = 1
             /\ stream'.error_code = NoCode
             /\ stream'.pc = "closed"
             /\ stream'.out = Append(stream.out, "finish")]_vars

\* C20: the generator moves from an attempt's acquire to its backend call,
\* to the next attempt or to the end, and from the backend call to the next
\* attempt or to the end; it starts a next attempt only when the running
\* one has forwarded no chunk; and once it has ended nothing of the request
\* changes any more.
C20_RequestStateMachine ==
    [][/\ stream.pc = "acquire" => stream'.pc \in {"acquire", "streaming", "closed", "raised"}
       /\ stream.pc = "streaming" => stream'.pc \in {"streaming", "acquire", "closed", "raised"}
       /\ stream'.attempt # stream.attempt
             => /\ stream'.attempt = stream.attempt + 1
                /\ stream.forwarded = 0
       /\ stream.pc \in {"closed", "raised"} => stream' = stream]_vars

\* C2: once a chunk of an attempt has been forwarded, a failure in that
\* attempt is never retried: no rotation and no new attempt follow it.
C2_NoRetryAfterChunk ==
    [][(stream.pc = "streaming" /\ stream.forwarded > 0)
          => ~(stream'.pc = "acquire" /\ stream'.attempt = stream.attempt + 1)]_vars

\* C3: every streaming request that does not end in success closes with an
\* error chunk followed by the termination marker.
C3_ClosesWithError ==
    (stream.pc \in {"closed", "raised"} /\ ~stream.success) =>
        /\ stream.pc = "closed"
        /\ Len(stream.out) >= 2
        /\ stream.out[Len(stream.out) - 1] = ErrorChunk
        /\ stream.out[Len(stream.out)] = Done

(***************************************************************************)
(* SpecQuota: AntigravityUsageStats (antigravity_usage_stats.py): calls    *)
(* of record_successful_call, check_quota_available and get_usage_stats    *)
(* by concurrent requests, from the first use of the tracker on            *)
(***************************************************************************)
DaySeconds == 86400

\* 07:00 UTC, in seconds after midnight
ResetSecond == 25200

save_interval == 60

\* next_reset_time is None
NoReset == -1

\* _get_next_utc_7am (lines 15-25) at the time now
get_next_utc_7am(now) ==
    LET today_7am == (now \div DaySeconds) * DaySeconds + ResetSecond
    IN  IF now < today_7am THEN today_7am ELSE today_7am + DaySeconds

ANT == <<"A", "N", "T", "/">>

P_CLAUDE_SONNET_4_5 ==
    <<"c", "l", "a", "u", "d", "e", "-", "s", "o", "n", "n", "e", "t", "-", "4", "-", "5">>

P_GEMINI_3 == <<"g", "e", "m", "i", "n", "i", "-", "3">>

\* s.startswith(pat)
StartsWith(s, pat) == Len(s) >= Len(pat) /\ SubSeq(s, 1, Len(pat)) = pat

\* s.replace(pat, "")
RECURSIVE RemoveAll(_, _)
RemoveAll(s, pat) ==
    IF Len(s) < Len(pat) THEN s
    ELSE IF SubSeq(s, 1, Len(pat)) = pat
    THEN RemoveAll(SubSeq(s, Len(pat) + 1, Len(s)), pat)
    ELSE <<s[1]>> \o RemoveAll(Tail(s), pat)

\* _is_claude_sonnet_4_5 (lines 62-77)
is_claude_sonnet_4_5(model_name) ==
    /\ model_name # << >>
    /\ StartsWith(Lower(RemoveAll(model_name, ANT)), P_CLAUDE_SONNET_4_5)

\* _is_gemini_3_pro (lines 79-97)
is_gemini_3_pro(model_name) ==
    /\ model_name # << >>
    /\ StartsWith(Lower(RemoveAll(model_name, ANT)), P_GEMINI_3)

Limits(claude, gemini, total) ==
    [daily_limit_claude |-> claude, daily_limit_gemini |-> gemini,
     daily_limit_total |-> total]

\* The limits of an entry the tracker creates (lines 190-192)
DefaultLimits == Limits(100, 100, 500)

\* One entry of _stats_cache, and the usage fields of one account of
\* accounts.toml
Usage(total, claude, gemini, next_reset_time, limits) ==
    [total_calls |-> total, claude_sonnet_4_5_calls |-> claude,
     gemini_3_pro_calls |-> gemini, next_reset_time |-> next_reset_time,
     daily_limit_claude |-> limits.daily_limit_claude,
     daily_limit_gemini |-> limits.daily_limit_gemini,
     daily_limit_total |-> limits.daily_limit_total]

\* _load_stats (lines 99-134) once load_antigravity_accounts has returned
\* the accounts loaded: every one of them replaces the entry of the cache.
load_stats(q, loaded) ==
    [q EXCEPT !.stats_cache =
        [k \in DOMAIN loaded \cup DOMAIN q.stats_cache |->
            IF k \in DOMAIN loaded THEN loaded[k] ELSE q.stats_cache[k]]]

\* _save_stats (lines 136-180): a read of accounts.toml that fails returns
\* {"accounts": []}, which is then saved.
save_stats(q, now, store_ok) ==
    IF ~q.cache_dirty \/ now - q.last_save_time < save_interval THEN q
    ELSE LET accounts_data == IF store_ok THEN q.accounts ELSE EmptyMap
         IN  [q EXCEPT !.accounts =
                          [k \in DOMAIN accounts_data |->
                              IF k \in DOMAIN q.stats_cache THEN q.stats_cache[k]
                              ELSE accounts_data[k]],
                       !.cache_dirty = FALSE,
                       !.last_save_time = now]

\* _get_or_create_stats (lines 182-197)
get_or_create_stats(q, key, now) ==
    IF key \in DOMAIN q.stats_cache THEN q
    ELSE [q EXCEPT !.stats_cache =
                      (key :> Usage(0, 0, 0, get_next_utc_7am(now), DefaultLimits)) @@ @,
                   !.cache_dirty = TRUE]

\* _check_and_reset_daily_quota that leaves total_calls as it is
check_and_reset_keeping_total(q, key, now) ==
    IF q.stats_cache[key].next_reset_time = NoReset
    THEN [q EXCEPT !.stats_cache[key].next_reset_time = get_next_utc_7am(now)]
    ELSE IF now >= q.stats_cache[key].next_reset_time
    THEN [q EXCEPT !.stats_cache[key].claude_sonnet_4_5_calls = 0,
                   !.stats_cache[key].gemini_3_pro_calls = 0,
                   !.stats_cache[key].next_reset_time = get_next_utc_7am(now),
                   !.cache_dirty = TRUE]
    ELSE q

\* _check_and_reset_daily_quota (lines 199-236) on the entry of key
check_and_reset_daily_quota(q, key, now) ==
    IF q.stats_cache[key].next_reset_time = NoReset
    THEN [q EXCEPT !.stats_cache[key].next_reset_time = get_next_utc_7am(now)]
    ELSE IF now >= q.stats_cache[key].next_reset_time
    THEN [q EXCEPT !.stats_cache[key].claude_sonnet_4_5_calls = 0,
                   !.stats_cache[key].gemini_3_pro_calls = 0,
                   !.stats_cache[key].total_calls = 0,
                   !.stats_cache[key].next_reset_time = get_next_utc_7am(now),
                   !.cache_dirty = TRUE]
    ELSE q

\* The entry of key once found or created and lazily reset
Current(q, key, now) ==
    check_and_reset_daily_quota(get_or_create_stats(q, key, now), key, now)

\* record_successful_call (lines 238-277) of an initialised tracker
record_successful_call(q, key, model_name, now, store_ok) ==
    LET q1 == The({[r EXCEPT
                      !.stats_cache[key].total_calls = @ + 1,
                      !.stats_cache[key].claude_sonnet_4_5_calls =
                          IF is_claude_sonnet_4_5(model_name) THEN @ + 1 ELSE @,
                      !.stats_cache[key].gemini_3_pro_calls =
                          IF ~is_claude_sonnet_4_5(model_name) /\ is_gemini_3_pro(model_name)
                          THEN @ + 1 ELSE @,
                      !.cache_dirty = TRUE] : r \in {Current(q, key, now)}})
    IN  [q |-> save_stats(q1, now, store_ok), available |-> TRUE]

\* check_quota_available that holds every family's counter against the model
check_quota_available_any_family(q, key, model_name, now, store_ok) ==
    The({[q |-> r,
          available |->
             /\ r.stats_cache[key].total_calls < r.stats_cache[key].daily_limit_total
             /\ r.stats_cache[key].claude_sonnet_4_5_calls
                   < r.stats_cache[key].daily_limit_claude
             /\ r.stats_cache[key].gemini_3_pro_calls
                   < r.stats_cache[key].daily_limit_gemini] :
         r \in {Current(q, key, now)}})

\* check_quota_available (lines 279-317) of an initialised tracker
check_quota_available(q, key, model_name, now, store_ok) ==
    The({[q |-> r,
          available |->
             IF r.stats_cache[key].total_calls >= r.stats_cache[key].daily_limit_total
             THEN FALSE
             ELSE IF is_claude_sonnet_4_5(model_name)
             THEN ~(r.stats_cache[key].claude_sonnet_4_5_calls
                       >= r.stats_cache[key].daily_limit_claude)
             ELSE IF is_gemini_3_pro(model_name)
             THEN ~(r.stats_cache[key].gemini_3_pro_calls
                       >= r.stats_cache[key].daily_limit_gemini)
             ELSE TRUE] :
         r \in {Current(q, key, now)}})

\* get_usage_stats(virtual_filename) (lines 319-355) of an initialised tracker
get_usage_stats(q, key, model_name, now, store_ok) ==
    [q |-> Current(q, key, now), available |-> TRUE]

\* The operation of the call c on an initialised tracker q: the tracker it
\* leaves, the call over and its answer on record.
RunCall(q, t, c, now, store_ok) ==
    \E r \in {CASE c.op = "record" ->
                     record_successful_call(q, c.key, c.model, now, store_ok)
                [] c.op = "check" ->
                     check_quota_available(q, c.key, c.model, now, store_ok)
                [] c.op = "stats" ->
                     get_usage_stats(q, c.key, c.model, now, store_ok)} :
        quota' = [r.q EXCEPT !.calls[t] = NoQuotaCall,
                             !.ran = [op |-> c.op, key |-> c.key, model |-> c.model,
                                      available |-> r.available]]

\* The environment of the tracker
MaxFamilyCalls == 1

MaxTotalCalls == 2

MaxCalls == 2

QuotaLimits == Limits(MaxFamilyCalls, MaxFamilyCalls, MaxTotalCalls)

\* 06:00 UTC of the first day
QuotaStart == 21600

\* The instants at which something happens: 06:00:00 and 06:00:30 of the
\* first day, 12:00 of the first day, 12:00 of the third day.
QuotaClocks ==
    {QuotaStart, QuotaStart + 30, QuotaStart + 21600,
     QuotaStart + 21600 + 2 * DaySeconds}

QuotaModels == {ANT \o M_CLAUDE_SONNET, ANT \o M_GEMINI_3_PRO_HIGH, M_GPT_OSS}

QuotaOps == {"record", "check", "stats"}

\* The account the requests use
QuotaKeys == {UserName(1)}

\* accounts.toml at the start: without the account, with the account and no
\* usage fields but its limits, or with a Gemini call of the account on
\* record and the reset due at 07:00.
QuotaDocs ==
    {EmptyMap,
     (UserName(1) :> Usage(0, 0, 0, NoReset, QuotaLimits)),
     (UserName(1) :> Usage(1, 0, 1, get_next_utc_7am(QuotaStart), QuotaLimits))}

\* The counter the next record_successful_call of key would raise
Recorded(q, key) ==
    IF key \in DOMAIN q.stats_cache THEN q.stats_cache[key].total_calls
    ELSE IF key \in DOMAIN q.accounts THEN q.accounts[key].total_calls
    ELSE 0

QuotaIdleRest ==
    /\ config = CHOOSE c \in Configs : c.auto_ban_enabled
    /\ pool = EmptyPool(<< >>)
    /\ lock = FALSE
    /\ acquiring = NoCall
    /\ returned = NoResult
    /\ BanIdle
    /\ stream = StreamOf("idle", << >>, 0, 0, << >>, NoCredentialResult, FALSE)
    /\ stats = << >>
    /\ store = NoStore
    /\ calls = NoCalls
    /\ request = NoRequest
    /\ backend = NoAnswer

InitQuota ==
    /\ QuotaIdleRest
    /\ clock = QuotaStart
    /\ budget = Budget(0, 0, 0)
    /\ quota \in {Tracker(d) : d \in QuotaDocs}

\* A request calls the tracker (lines 240-241, 286-287, 321-322): on an
\* initialised tracker the operation runs at once; otherwise the call enters
\* initialize and waits for the accounts to be loaded.
QuotaCall ==
    \E t \in Tasks, op \in QuotaOps, key \in QuotaKeys, model_name \in QuotaModels,
       store_ok \in BOOLEAN :
        /\ quota.calls[t].pc = "idle"
        /\ op = "record" => Recorded(quota, key) < MaxCalls
        /\ IF quota.initialized
           THEN /\ StoreOk(store_ok)
                /\ Spend(store_ok, 0, 0)
                /\ RunCall(quota, t, [op |-> op, key |-> key, model |-> model_name],
                           clock, store_ok)
           ELSE /\ store_ok
                /\ quota' = [quota EXCEPT
                               !.calls[t] = [pc |-> "init", op |-> op, key |-> key,
                                             model |-> model_name, loaded |-> EmptyMap],
                               !.ran = NoRun]
                /\ UNCHANGED budget
        /\ UNCHANGED <<config, clock, pool, lock, acquiring, returned, banVars,
                       stream, stats, store, calls, request, backend>>

\* load_antigravity_accounts answers the _load_stats of a call (line 103).
QuotaLoad ==
    \E t \in Tasks, store_ok \in BOOLEAN :
        /\ quota.calls[t].pc = "init"
        /\ StoreOk(store_ok)
        /\ Spend(store_ok, 0, 0)
        /\ quota' = [quota EXCEPT
                       !.calls[t].pc = "loaded",
                       !.calls[t].loaded = IF store_ok THEN quota.accounts ELSE EmptyMap,
                       !.ran = NoRun]
        /\ UNCHANGED <<config, clock, pool, lock, acquiring, returned, banVars,
                       stream, stats, store, calls, request, backend>>

\* The call resumes: _load_stats fills the cache (lines 110-128), initialize
\* sets _initialized (line 59) and the operation runs.
QuotaResume ==
    \E t \in Tasks, store_ok \in BOOLEAN :
        /\ quota.calls[t].pc = "loaded"
        /\ StoreOk(store_ok)
        /\ Spend(store_ok, 0, 0)
        /\ RunCall([load_stats(quota, quota.calls[t].loaded) EXCEPT !.initialized = TRUE],
                   t, quota.calls[t], clock, store_ok)
        /\ UNCHANGED <<config, clock, pool, lock, acquiring, returned, banVars,
                       stream, stats, store, calls, request, backend>>

QuotaTick ==
    \E now \in QuotaClocks :
        /\ now > clock
        /\ clock' = now
        /\ quota' = [quota EXCEPT !.ran = NoRun]
        /\ UNCHANGED <<config, pool, lock, acquiring, returned, budget, banVars,
                       stream, stats, store, calls, request, backend>>

NextQuota ==
    \/ QuotaCall
    \/ QuotaLoad
    \/ QuotaResume
    \/ QuotaTick

SpecQuota == InitQuota /\ [][NextQuota]_vars

\* The step is op(key, model_name), and the entry of key is due for its
\* reset.
DueStep(op, key, model_name) ==
    /\ quota'.ran.op = op
    /\ quota'.ran.key = key
    /\ quota'.ran.model = model_name
    /\ key \in DOMAIN quota.stats_cache
    /\ quota.stats_cache[key].next_reset_time # NoReset
    /\ clock >= quota.stats_cache[key].next_reset_time

\* The counters of an entry
Counters(entry) ==
    <<entry.total_calls, entry.claude_sonnet_4_5_calls, entry.gemini_3_pro_calls>>

\* The counters after one call of model_name recorded from zero
FirstCall(model_name) ==
    <<1, IF is_claude_sonnet_4_5(model_name) THEN 1 ELSE 0,
         IF ~is_claude_sonnet_4_5(model_name) /\ is_gemini_3_pro(model_name)
         THEN 1 ELSE 0>>

\* The counters op leaves and the answer it gives when it starts from zero
\* under the limits of this entry.
FromZero(op, model_name, entry) ==
    [counters |-> IF op = "record" THEN FirstCall(model_name) ELSE <<0, 0, 0>>,
     available |-> \/ op = "record"
                   \/ /\ 0 < entry.daily_limit_total
                      /\ is_claude_sonnet_4_5(model_name) => 0 < entry.daily_limit_claude
                      /\ (~is_claude_sonnet_4_5(model_name) /\ is_gemini_3_pro(model_name))
                            => 0 < entry.daily_limit_gemini]

\* C22 as stated: when now >= nextReset, check_quota_available and
\* record_successful_call zero every counter, set nextReset to exactly one
\* day after the previous nextReset and decide on the zeroed counters.
C22_ResetAdvancesOneDay ==
    [][\A op \in {"check", "record"}, key \in QuotaKeys, model_name \in QuotaModels :
          DueStep(op, key, model_name)
          => /\ quota'.stats_cache[key].next_reset_time
                   = quota.stats_cache[key].next_reset_time + DaySeconds
             /\ Counters(quota'.stats_cache[key])
                   = FromZero(op, model_name, quota.stats_cache[key]).counters
             /\ quota'.ran.available
                   = FromZero(op, model_name, quota.stats_cache[key]).available]_vars

\* C22 amended: when now >= nextReset, check_quota_available and
\* record_successful_call zero every counter, set nextReset to the first
\* 07:00 UTC after now (one or more whole days after the previous nextReset)
\* and decide on the zeroed counters, in one step.
C22_ResetToNextBoundary ==
    [][\A op \in {"check", "record"}, key \in QuotaKeys, model_name \in QuotaModels :
          DueStep(op, key, model_name)
          => /\ quota'.stats_cache[key].next_reset_time = get_next_utc_7am(clock)
             /\ quota'.stats_cache[key].next_reset_time > clock
             /\ \E days \in 1..3 :
                   quota'.stats_cache[key].next_reset_time
                      = quota.stats_cache[key].next_reset_time + days * DaySeconds
             /\ Counters(quota'.stats_cache[key])
                   = FromZero(op, model_name, quota.stats_cache[key]).counters
             /\ quota'.ran.available
                   = FromZero(op, model_name, quota.stats_cache[key]).available]_vars

\* check_quota_available has just reset an entry whose calls the document
\* still holds, more than a day after the reset the document names.
C22_Witness ==
    \E key \in QuotaKeys :
        /\ quota.ran.op = "check"
        /\ quota.ran.key = key
        /\ key \in DOMAIN quota.stats_cache
        /\ key \in DOMAIN quota.accounts
        /\ quota.accounts[key].total_calls > 0
        /\ quota.accounts[key].next_reset_time # NoReset
        /\ Counters(quota.stats_cache[key]) = <<0, 0, 0>>
        /\ quota.stats_cache[key].next_reset_time
              > quota.accounts[key].next_reset_time + DaySeconds

\* C23: while nextReset of an account stays as it is, no step of the tracker
\* (record_successful_call, check_quota_available, get_usage_stats, the flush
\* of _save_stats, initialize on first use, in any interleaving) lowers
\* total_calls or a family counter of the account, and a
\* record_successful_call raises total_calls by exactly 1.
C23_CountersMonotone ==
    [][\A key \in QuotaKeys :
          (/\ key \in DOMAIN quota.stats_cache
           /\ key \in DOMAIN quota'.stats_cache
           /\ quota'.stats_cache[key].next_reset_time
                 = quota.stats_cache[key].next_reset_time)
          => /\ \A i \in 1..3 :
                   Counters(quota'.stats_cache[key])[i] >= Counters(quota.stats_cache[key])[i]
             /\ (quota'.ran.op = "record" /\ quota'.ran.key = key)
                   => quota'.stats_cache[key].total_calls
                         = quota.stats_cache[key].total_calls + 1]_vars

\* The family whose counter check_quota_available holds against model_name
Family(model_name) ==
    IF is_claude_sonnet_4_5(model_name) THEN "claude"
    ELSE IF is_gemini_3_pro(model_name) THEN "gemini"
    ELSE "none"

\* The step is check_quota_available(key, model_name).
CheckStep(key, model_name) ==
    /\ quota'.ran.op = "check"
    /\ quota'.ran.key = key
    /\ quota'.ran.model = model_name

QuotaQuiet == \A t \in Tasks : quota.calls[t].pc = "idle"

\* C33: the cache is not left dirty for longer than the save interval: with
\* no call in progress, a dirty cache has been flushed less than
\* save_interval seconds ago.
C33_DirtyFlushedInTime ==
    (quota.initialized /\ QuotaQuiet /\ quota.cache_dirty)
       => clock - quota.last_save_time < save_interval

(***************************************************************************)
(* SpecStore: accounts.toml (storage/file_storage_manager.py) under the    *)
(* operations that read and write it, each taken at its awaits: the reads   *)
(* and the writes of different operations interleave                        *)
(***************************************************************************)
\* One account of accounts.toml, by what the writers put into it: a series
\* ban (banned), a refreshed token (refreshed), flushed usage counters
\* (counted), the disabled flag, and a recorded success (succeeded: an empty
\* error history and last_success).
Row(user_id) ==
    [user_id |-> user_id, banned |-> FALSE, refreshed |-> FALSE, counted |-> FALSE,
     disabled |-> FALSE, succeeded |-> FALSE]

\* open(accounts_file, "w") has truncated the file.
Truncated == Whole(<< >>)

\* toml.loads(content)["accounts"] in _update_antigravity_account_state
\* (lines 438-445), _delete_antigravity_account (lines 520-526) and
\* get_credential_state (lines 628-633): the parse raises on a torn text, and
\* an empty text has no accounts.
StrictRead(file) ==
    [ok |-> ~file.torn /\ file.accounts # << >>, accounts |-> file.accounts]

\* The state get_credential_state hands to mark_credential_success and to
\* disable_credential: the disabled flag, the error codes and last_success
\* of the account, or get_default_state() (lines 78-94, 672), which has the
\* flag off, no error codes, the time of the call as last_success, and the
\* usage counters at zero.
StateOf(file, user_id) ==
    LET r == StrictRead(file)
        i == IF r.ok THEN IndexOfUser(r.accounts, user_id) ELSE 0
    IN  IF i = 0 THEN [disabled |-> FALSE, succeeded |-> TRUE, default |-> TRUE]
        ELSE [disabled |-> r.accounts[i].disabled,
              succeeded |-> r.accounts[i].succeeded, default |-> FALSE]

WriterKinds == {"ban", "token", "quota", "disable", "success", "error", "delete"}

StoreKinds == WriterKinds \cup {"load"}

\* An operation on accounts.toml: what it is, the account it is about, its
\* position, the state it got, the accounts it is about to write or has
\* loaded, and the accounts the file held when it opened the file to write.
StoreOp(kind, key) ==
    [kind |-> kind, key |-> key, pc |-> "start",
     state |-> [disabled |-> FALSE, succeeded |-> FALSE, default |-> FALSE],
     data |-> << >>, before |-> << >>]

\* The accounts with the entry of key changed by f
Patch(accounts, key, f(_)) ==
    [i \in 1..Len(accounts) |->
        IF i = IndexOfUser(accounts, key) THEN f(accounts[i]) ELSE accounts[i]]

SetBanned(row) == [row EXCEPT !.banned = TRUE]

SetRefreshed(row) == [row EXCEPT !.refreshed = TRUE]

SetCounted(row) == [row EXCEPT !.counted = TRUE]

RECURSIVE Without(_, _)
Without(accounts, key) ==
    IF accounts = << >> THEN << >>
    ELSE IF Head(accounts).user_id = key THEN Without(Tail(accounts), key)
    ELSE <<Head(accounts)>> \o Without(Tail(accounts), key)

\* What the operation o makes of the file it reads: whether it goes on to
\* write, and the accounts it will write.
\*   ban      _set_series_ban (lines 732-778)
\*   quota    _save_stats (lines 136-180), the cache holding every account
\*   token    _save_account_to_storage (lines 445-510)
\*   disable  update_credential_state(state) of disable_credential
\*   success  update_credential_state(state) of mark_credential_success
\*   error    update_credential_state(state) of mark_credential_error, the
\*            error code added to the history (lines 617-630)
\*            (all three: account.update(state), lines 431-495)
\*   delete   _delete_antigravity_account (lines 502-573)
\* The first three read through load_antigravity_accounts, which answers a
\* file it cannot parse with no accounts.
Prepare(o, file) ==
    LET loaded == load_antigravity_accounts(file.accounts, ~file.torn).accounts
        strict == StrictRead(file)
        found == strict.ok /\ IndexOfUser(strict.accounts, o.key) # 0
    IN  CASE o.kind = "ban" ->
               [ok |-> TRUE, accounts |-> Patch(loaded, o.key, SetBanned)]
          [] o.kind = "quota" ->
               [ok |-> TRUE, accounts |-> [i \in 1..Len(loaded) |-> SetCounted(loaded[i])]]
          [] o.kind = "token" ->
               [ok |-> IndexOfUser(loaded, o.key) # 0,
                accounts |-> Patch(loaded, o.key, SetRefreshed)]
          [] o.kind = "disable" ->
               [ok |-> found,
                accounts |->
                   [i \in 1..Len(strict.accounts) |->
                      IF i = IndexOfUser(strict.accounts, o.key)
                      THEN [strict.accounts[i] EXCEPT
                              !.disabled = TRUE,
                              !.succeeded = o.state.succeeded,
                              !.counted = IF o.state.default THEN FALSE ELSE @]
                      ELSE strict.accounts[i]]]
          [] o.kind = "success" ->
               [ok |-> found,
                accounts |->
                   [i \in 1..Len(strict.accounts) |->
                      IF i = IndexOfUser(strict.accounts, o.key)
                      THEN [strict.accounts[i] EXCEPT
                              !.succeeded = TRUE,
                              !.disabled = o.state.disabled,
                              !.counted = IF o.state.default THEN FALSE ELSE @]
                      ELSE strict.accounts[i]]]
          [] o.kind = "error" ->
               [ok |-> found,
                accounts |->
                   [i \in 1..Len(strict.accounts) |->
                      IF i = IndexOfUser(strict.accounts, o.key)
                      THEN [strict.accounts[i] EXCEPT
                              !.succeeded = FALSE,
                              !.disabled = o.state.disabled,
                              !.counted = IF o.state.default THEN FALSE ELSE @]
                      ELSE strict.accounts[i]]]
          [] o.kind = "delete" ->
               [ok |-> found, accounts |-> Without(strict.accounts, o.key)]

\* The accounts a text cut short holds: a proper prefix of the accounts
\* written, ending between two entries or inside one.
Partial(accounts) ==
    {[accounts |-> SubSeq(accounts, 1, n), torn |-> torn] :
        n \in 0..(Len(accounts) - 1), torn \in BOOLEAN}

StoreKeys == {UserName(1), UserName(2)}

StoreRows == <<Row(UserName(1)), Row(UserName(2))>>

InitStore ==
    /\ config = CHOOSE c \in Configs : c.auto_ban_enabled
    /\ clock = 0
    /\ pool = EmptyPool(<< >>)
    /\ lock = FALSE
    /\ acquiring = NoCall
    /\ returned = NoResult
    /\ budget = Budget(MaxStoreFailures, 0, 0)
    /\ BanIdle
    /\ stream = StreamOf("idle", << >>, 0, 0, << >>, NoCredentialResult, FALSE)
    /\ stats = << >>
    /\ quota = NoTracker
    /\ calls = NoCalls
    /\ request = NoRequest
    /\ backend = NoAnswer
    /\ store \in {[file |-> Whole(StoreRows), backups |-> {}, ops |-> ops] :
                    ops \in [Tasks -> {StoreOp(kind, key) :
                                          kind \in StoreKinds, key \in StoreKeys}]}
    /\ Cardinality({t \in Tasks : store.ops[t].kind = "token"}) <= 1

\* The operations in progress are those of different requests, of the quota
\* tracker and of the administrator; _save_account_to_storage runs under the
\* pool lock, so that at most one of them is a token save.
StoreRest == UNCHANGED <<config, clock, pool, lock, acquiring, returned, banVars,
                         stream, stats, quota, calls, request, backend>>

StateKinds == {"disable", "success", "error"}

\* disable_credential, mark_credential_success and mark_credential_error
\* await get_credential_state (lines 986, 1004, 619).
StoreGet ==
    \E t \in Tasks :
        /\ store.ops[t].kind \in StateKinds
        /\ store.ops[t].pc = "start"
        /\ store' = [store EXCEPT !.ops[t].pc = "got",
                                  !.ops[t].state = StateOf(store.file, store.ops[t].key)]
        /\ UNCHANGED budget
        /\ StoreRest

\* A writer reads the file and prepares what it will write, or gives up.
StoreRead ==
    \E t \in Tasks :
        /\ store.ops[t].kind \in WriterKinds
        /\ store.ops[t].pc = IF store.ops[t].kind \in StateKinds THEN "got" ELSE "start"
        /\ \E r \in {Prepare(store.ops[t], store.file)} :
             store' = [store EXCEPT
                         !.ops[t].pc = IF r.ok THEN "read" ELSE "aborted",
                         !.ops[t].data = IF r.ok THEN r.accounts ELSE << >>]
        /\ UNCHANGED budget
        /\ StoreRest

\* _delete_antigravity_account copies the file as it is to the backup
\* directory (lines 538-553); a copy that fails ends the deletion.
StoreBackup ==
    \E t \in Tasks, copied \in BOOLEAN :
        /\ store.ops[t].kind = "delete"
        /\ store.ops[t].pc = "read"
        /\ StoreOk(copied)
        /\ Spend(copied, 0, 0)
        /\ store' = [store EXCEPT
                       !.ops[t].pc = IF copied THEN "backed" ELSE "aborted",
                       !.backups = IF copied THEN @ \cup {store.file} ELSE @]
        /\ StoreRest

\* aiofiles.open(path, "w") truncates the file.
StoreOpen ==
    \E t \in Tasks :
        /\ store.ops[t].kind \in WriterKinds
        /\ store.ops[t].pc = IF store.ops[t].kind = "delete" THEN "backed" ELSE "read"
        /\ store' = [store EXCEPT !.ops[t].pc = "opened",
                                  !.ops[t].before = store.file.accounts,
                                  !.file = Truncated]
        /\ UNCHANGED budget
        /\ StoreRest

\* A part of the text reaches the file before the rest.
StoreFlush ==
    \E t \in Tasks :
        /\ store.ops[t].pc = "opened"
        /\ \E part \in Partial(store.ops[t].data) :
             store' = [store EXCEPT !.ops[t].pc = "flushed", !.file = part]
        /\ UNCHANGED budget
        /\ StoreRest

\* f.write(toml_content) and the close of the file complete.
StoreWrite ==
    \E t \in Tasks :
        /\ store.ops[t].pc \in {"opened", "flushed"}
        /\ store' = [store EXCEPT !.ops[t].pc = "done",
                                  !.file = Whole(store.ops[t].data)]
        /\ UNCHANGED budget
        /\ StoreRest

\* load_antigravity_accounts (lines 945-972) by a caller that only reads
StoreLoad ==
    \E t \in Tasks :
        /\ store.ops[t].kind = "load"
        /\ store.ops[t].pc = "start"
        /\ store' = [store EXCEPT
                       !.ops[t].pc = "done",
                       !.ops[t].data =
                          load_antigravity_accounts(store.file.accounts,
                                                    ~store.file.torn).accounts]
        /\ UNCHANGED budget
        /\ StoreRest

NextStore ==
    \/ StoreGet
    \/ StoreRead
    \/ StoreBackup
    \/ StoreOpen
    \/ StoreFlush
    \/ StoreWrite
    \/ StoreLoad

SpecStore == InitStore /\ [][NextStore]_vars

\* The step of operation t from position from to position to
StoreStep(t, kind, from, to) ==
    /\ store.ops[t].kind = kind
    /\ store.ops[t].pc \in from
    /\ store'.ops[t].pc = to

\* C25 on the file: the accounts the update of mark_credential_success
\* prepares differ from the accounts it has read only in the entry of key,
\* which has the success on record and the disabled flag as read.
C25_SuccessKeepsDisabledFlag ==
    [][\A t \in Tasks :
          StoreStep(t, "success", {"got"}, "read")
          => /\ Len(store'.ops[t].data) = Len(store.file.accounts)
             /\ \A i \in 1..Len(store.file.accounts) :
                   IF store.file.accounts[i].user_id = store.ops[t].key
                   THEN /\ store'.ops[t].data[i].succeeded
                        /\ store'.ops[t].data[i].disabled
                              = store.file.accounts[i].disabled
                   ELSE store'.ops[t].data[i] = store.file.accounts[i]]_vars

\* C26: when _delete_antigravity_account opens accounts.toml to write it
\* without the account, a backup holds the whole document as it is at that
\* moment (none is made: no removal); and once the write is complete the
\* document is the one it replaced without the account, every other account
\* as it was.
C26_SnapshotThenRemoval ==
    [][\A t \in Tasks :
          /\ StoreStep(t, "delete", {"backed"}, "opened")
                => /\ ~store.file.torn
                   /\ store.file \in store.backups
          /\ StoreStep(t, "delete", {"opened", "flushed"}, "done")
                => /\ store.backups # {}
                   /\ store'.file = Whole(Without(store.ops[t].before, store.ops[t].key))
                   /\ IndexOfUser(store.ops[t].before, store.ops[t].key) # 0]_vars

\* C27: a load_antigravity_accounts that runs while another operation has
\* accounts.toml open for writing returns the accounts the file held before
\* that write or the accounts being written (the call has no other way to
\* report a failed read than the accounts it returns).
C27_LoadSeesBeforeOrAfter ==
    [][\A t \in Tasks, w \in Tasks :
          (/\ StoreStep(t, "load", {"start"}, "done")
           /\ store.ops[w].pc \in {"opened", "flushed"})
          => store'.ops[t].data \in {store.ops[w].before, store.ops[w].data}]_vars

UpdateKinds == WriterKinds \ {"delete", "error"}

\* The update of operation o is in the accounts.
Retained(o, accounts) ==
    /\ IndexOfUser(accounts, o.key) # 0
    /\ \E row \in {accounts[IndexOfUser(accounts, o.key)]} :
          CASE o.kind = "ban" -> row.banned
            [] o.kind = "token" -> row.refreshed
            [] o.kind = "quota" -> row.counted
            [] o.kind = "disable" -> row.disabled
            [] o.kind = "success" -> row.succeeded

\* C28: once every operation (series ban, token save, quota flush, disable,
\* recorded success) has written the file, the file holds the update of each.
C28_NoLostUpdate ==
    (\A t \in Tasks : store.ops[t].kind \in UpdateKinds /\ store.ops[t].pc = "done")
       => /\ ~store.file.torn
          /\ \A t \in Tasks : Retained(store.ops[t], store.file.accounts)

\* The accounts the document holds
AccountsIn(accounts) == {accounts[i].user_id : i \in 1..Len(accounts)}

\* C36: the operations other than add_account and the deletion keep every
\* account in the document: with no deletion among the operations (series
\* ban, token save, quota flush, disable, recorded success or error), none of
\* them in the middle of its write, accounts.toml holds the accounts it
\* held at the start, also when an operation read the file while another
\* was writing it.
C36_AccountsPreserved ==
    (/\ \A t \in Tasks : store.ops[t].kind # "delete"
     /\ \A t \in Tasks : store.ops[t].pc \notin {"opened", "flushed"})
       => AccountsIn(store.file.accounts) = StoreKeys

\* C38: a disabled account stays disabled: once disable_credential has
\* written the flag, the write of a mark_credential_success or a
\* mark_credential_error on the same key leaves the account disabled in
\* accounts.toml, however its read of the state interleaved with the disable.
C38_DisabledStays ==
    [][\A t \in Tasks :
          (/\ store.ops[t].kind \in {"success", "error"}
           /\ store.ops[t].pc \in {"opened", "flushed"}
           /\ store'.ops[t].pc = "done"
           /\ \E w \in Tasks : /\ store.ops[w].kind = "disable"
                               /\ store.ops[w].key = store.ops[t].key
                               /\ store.ops[w].pc = "done")
          => \E i \in 1..Len(store'.file.accounts) :
                /\ store'.file.accounts[i].user_id = store.ops[t].key
                /\ store'.file.accounts[i].disabled]_vars

(***************************************************************************)
(* SpecClassify: the generator when the backend answers an attempt with an *)
(* error status and an error body (antigravity/client.py lines 69-77)      *)
(***************************************************************************)
\* The statuses the backend answers with
Statuses == {400, 401, 403, 404, 429, 500}

\* f"{response.status_code}"
StatusText(status) ==
    CASE status = 400 -> T_400 [] status = 401 -> T_401 [] status = 403 -> T_403
      [] status = 404 -> T_404 [] status = 429 -> T_429 [] status = 500 -> T_500

\* The texts of the error body: none, or one in which the digits of a status
\* code occur (in a delay such as "50.403s", a count, a timestamp).
ErrorTexts == {<< >>} \cup {<<".">> \o StatusText(status) \o <<"s">> : status \in {403, 500}}

\* The message of the exception stream_generate_content raises (client.py
\* lines 71-77): "403 Forbidden - ...: <text>", "API ... (<status>): <text>"
ErrorMessage(status, text) ==
    IF status = 403 THEN T_403 \o <<" ", "F", ":">> \o text
    ELSE <<"(">> \o StatusText(status) \o <<")", ":">> \o text

\* The backend answers the attempt with the status and the text before the
\* first chunk, and the except branch runs (lines 760-799).
ClassifyFail ==
    \E status \in Statuses, text \in ErrorTexts :
        /\ stream.pc = "streaming"
        /\ stream.forwarded = 0
        /\ StreamExcept(pool,
                        Failure(ErrorMessage(status, text),
                                IF status = 429 THEN E_RATE_LIMITED.body ELSE NoBody))
        /\ backend' = [status |-> status, text |-> text]
        /\ returned' = NoResult
        /\ UNCHANGED <<config, clock, lock, acquiring, budget, banVars, stats, quota,
                       store, calls, request>>

InitClassify == InitStream

NextClassify ==
    \/ StreamAcquire /\ UNCHANGED banVars
    \/ StreamChunk
    \/ StreamFinish
    \/ ClassifyFail

SpecClassify == InitClassify /\ [][NextClassify]_vars

\* C34: when the backend answers an attempt with status s before the first
\* chunk, the status the except branch works with is s, whatever the text
\* of the error body: mark_credential_error is called with s, and the retry
\* is decided on s.
C34_StatusClassifiedAsItself ==
    [][backend' # backend
          => /\ stream'.error_code = backend'.status
             /\ \E p1 \in {mark_credential_error(
                               pool, config, KeyOf(stream.credential_result),
                               backend'.status,
                               IF backend'.status = 429 THEN E_RATE_LIMITED.body
                               ELSE NoBody,
                               clock, TRUE)} :
                   pool' = IF /\ backend'.status \in config.auto_ban_error_codes
                              /\ stream.attempt < max_retries - 1
                           THEN rotate_credential(p1) ELSE p1]_vars

(***************************************************************************)
(* SpecShared: a request's generator on the pool it shares with the other  *)
(* requests in flight, whose get_valid_credential, increment_call_count    *)
(* and force_rotate_credential calls run between its own                   *)
(***************************************************************************)
\* Every account has a token and a project id.
InitShared ==
    /\ PoolInit
    /\ pool \in {discover_credentials(EmptyPool(d), TRUE) : d \in VerifiedDocs}
    /\ budget = Budget(0, 0, 0)
    /\ BanIdle
    /\ stream \in {StreamOf("acquire", m, 0, 0, << >>, NoCredentialResult, FALSE) :
                      m \in RequestModels}
    /\ stats = << >>
    /\ quota = NoTracker
    /\ store = NoStore
    /\ calls = NoCalls
    /\ request = NoRequest
    /\ backend = NoAnswer

\* get_valid_credential called by another request, the Store and the
\* network answering
OtherAcquire ==
    \E m \in RequestModels :
        AcquireWith(m, [store_ok |-> TRUE, fetched |-> "ok", refreshed |-> TRUE])

NextShared ==
    \/ StreamAcquire /\ UNCHANGED banVars
    \/ StreamFinish
    \/ StreamFail
    \/ OtherAcquire /\ UNCHANGED <<banVars, streamVars>>
    \/ IncrementCallCount /\ UNCHANGED <<banVars, streamVars>>
    \/ ForceRotate /\ UNCHANGED <<banVars, streamVars>>

SpecShared == InitShared /\ [][NextShared]_vars

\* The generator is about to retry: its last attempt, made with a token of
\* the account X it still holds in credential_result, failed with a status
\* it retries on, and it has called force_rotate_credential.
Retrying ==
    /\ stream.pc = "acquire"
    /\ stream.error_code # NoCode
    /\ stream.credential_result.bound
    /\ stream.credential_result.account.access_token

\* The enabled list of pool p has an account other than u that is not
\* disabled in the Store and not banned for the model.
OtherUsable(p, u, model_name, now) ==
    \E i \in 1..Len(p.credential_accounts) :
        \E a \in {p.credential_accounts[i].account} :
            /\ a.user_id # u
            /\ ~Stored(p, a.user_id).disabled
            /\ ~is_banned(a, model_name, now)

\* C39: the attempt that follows a failed attempt on account X and the
\* rotation is not made on X when the enabled list has another account
\* that is enabled and not banned, whatever the other requests called on
\* the pool in between.
C39_RetryLeavesFailedAccount ==
    [][(/\ Retrying
        /\ stream'.pc = "streaming"
        /\ OtherUsable(pool, stream.credential_result.account.user_id,
                       stream.model, clock))
          => stream'.credential_result.account.user_id
                # stream.credential_result.account.user_id]_vars

(***************************************************************************)
(* SpecNet: get_valid_credential and force_rotate_credential called by     *)
(* several requests, get_valid_credential taken at its awaits on the       *)
(* network, which all lie inside `async with self._operation_lock`         *)
(***************************************************************************)
\* A call in progress: what it is ("acquire", "rotate"), its position
\* ("start": at the lock, "fetch": awaiting _fetch_project_id_from_api,
\* "refresh": awaiting the post to the identity provider, "done") and the
\* _checked_count of the activation.
Call(op, model_name) ==
    [op |-> op, model_name |-> model_name, pc |-> "start", checked_count |-> 0]

NetworkWaits == {"fetch", "refresh"}

\* lines 524-540: the reload of an empty pool, the exhaustion check, the
\* rotation by call count and the loading of the current account.
select_account(p, cfg, checked_count) ==
    The({IF p1.credential_accounts = << >>
         THEN Outcome(p1, "none", "no_credentials", checked_count)
         ELSE IF checked_count >= Len(p1.credential_accounts)
         THEN Outcome(p1, "none", "exhausted", checked_count)
         ELSE The({The({Outcome(p3, "selected", "", checked_count) :
                        p3 \in {IF p2.current_credential_account = NoAccount
                                THEN load_current_credential(p2) ELSE p2}}) :
                   p2 \in {IF should_rotate(p1, cfg) THEN rotate_credential(p1)
                           ELSE p1}}) :
         p1 \in {IF p.credential_accounts = << >>
                 THEN discover_credentials(p, TRUE) ELSE p}})

\* _ensure_project_id goes to the backend (line 883): the current account
\* has no project id (line 864) and the configuration asks for verification
\* (lines 868-870).
needs_fetch(p, cfg) ==
    /\ p.current_credential_account # NoAccount
    /\ ~p.current_credential_account.project_id
    /\ ~cfg.skip_project_verification

\* lines 546-566: the series ban check, and the token check up to the call
\* of _refresh_access_token ("refresh": the token is expired and the post
\* to the identity provider is awaited).
until_refresh(p, model_name, checked_count, now) ==
    The({IF chk.banned
         THEN IF Len(chk.p.credential_accounts) > 1
              THEN The({Outcome(q, "recurse", "", checked_count + 1) :
                        q \in {load_current_credential(rotate_credential(chk.p))}})
              ELSE Outcome(chk.p, "none", "banned_single", checked_count)
         ELSE IF /\ chk.p.current_credential_account # NoAccount
                 /\ is_token_expired(chk.p.current_credential_account, now)
         THEN Outcome(chk.p, "refresh", "", checked_count)
         ELSE return_current(chk.p, checked_count) :
         chk \in {IF model_name # << >> /\ p.current_credential_account # NoAccount
                  THEN check_series_ban(p, p.current_credential_account, model_name,
                                        now, TRUE)
                  ELSE [p |-> p, banned |-> FALSE]}})

\* The call t goes on from the outcome r of a part of its activation: it
\* awaits the network with the lock held, it calls itself (the inner call
\* waits at line 523 for the lock its caller holds), or it returns and the
\* lock is released.
Proceed(t, r) ==
    /\ pool' = r.p
    /\ lock' = (r.kind \in NetworkWaits \cup {"recurse"})
    /\ calls' = [calls EXCEPT
                    ![t].pc = CASE r.kind \in NetworkWaits -> r.kind
                                [] r.kind = "recurse" -> "start"
                                [] OTHER -> "done",
                    ![t].checked_count = r.checked_count]
    /\ returned' = IF r.kind \in {"ok", "none", "raise"}
                   THEN ResultOf(r, calls[t].model_name) ELSE returned

NetRest ==
    UNCHANGED <<config, clock, acquiring, budget, banVars, stream, stats, quota,
                store, request, backend>>

\* get_valid_credential takes the lock (line 523) and runs to its first
\* await on the network, or to its return.
NetEnter ==
    \E t \in Tasks :
        /\ calls[t].op = "acquire"
        /\ calls[t].pc = "start"
        /\ ~lock
        /\ \E h \in {select_account(pool, config, calls[t].checked_count)} :
             \E r \in {IF h.kind # "selected" THEN h
                       ELSE IF needs_fetch(h.p, config)
                       THEN Outcome(h.p, "fetch", "", h.checked_count)
                       ELSE until_refresh(
                                IF h.p.current_credential_account # NoAccount
                                THEN ensure_project_id(h.p, config, "ok", TRUE)
                                ELSE h.p,
                                calls[t].model_name, h.checked_count, clock)} :
                Proceed(t, r)
        /\ NetRest

\* The backend answers _fetch_project_id_from_api (lines 883-911).
NetFetched ==
    \E t \in Tasks, fetched \in {"ok", "denied", "error"} :
        /\ calls[t].pc = "fetch"
        /\ \E r \in {until_refresh(ensure_project_id(pool, config, fetched, TRUE),
                                   calls[t].model_name, calls[t].checked_count,
                                   clock)} :
             Proceed(t, r)
        /\ NetRest

\* The identity provider answers _refresh_access_token, or the post times
\* out (lines 406-443, 566-602).
NetRefreshed ==
    \E t \in Tasks, refreshed \in BOOLEAN :
        /\ calls[t].pc = "refresh"
        /\ \E r \in {check_token(pool,
                                 [store_ok |-> TRUE, fetched |-> "ok",
                                  refreshed |-> refreshed],
                                 clock, calls[t].checked_count)} :
             Proceed(t, r)
        /\ NetRest

\* force_rotate_credential (lines 315-319)
NetRotate ==
    \E t \in Tasks :
        /\ calls[t].op = "rotate"
        /\ calls[t].pc = "start"
        /\ ~lock
        /\ pool' = rotate_credential(pool)
        /\ calls' = [calls EXCEPT ![t].pc = "done"]
        /\ UNCHANGED <<lock, returned>>
        /\ NetRest

\* The requests come in when the tokens are fresh and an hour later.
NetClocks == {0, TickSeconds}

NetOps == {"acquire", "rotate"}

InitNet ==
    /\ config \in Configs
    /\ clock \in NetClocks
    /\ lock = FALSE
    /\ acquiring = NoCall
    /\ returned = NoResult
    /\ pool \in {discover_credentials(EmptyPool(d), TRUE) : d \in StreamDocs}
    /\ budget = Budget(0, 0, 0)
    /\ BanIdle
    /\ stream = StreamOf("idle", << >>, 0, 0, << >>, NoCredentialResult, FALSE)
    /\ stats = << >>
    /\ quota = NoTracker
    /\ store = NoStore
    /\ request = NoRequest
    /\ backend = NoAnswer
    /\ calls \in [Tasks -> {Call(op, M_CLAUDE_SONNET) : op \in NetOps}]

NextNet ==
    \/ NetEnter
    \/ NetFetched
    \/ NetRefreshed
    \/ NetRotate

SpecNet == InitNet /\ [][NextNet]_vars

\* C29: no call awaits the backend's project id or the identity provider's
\* token while the pool lock is held, so that no other call that wants the
\* lock waits for the network's answer.
C29_NoLockAcrossNetwork ==
    \A t \in Tasks : calls[t].pc \in NetworkWaits => ~lock

(***************************************************************************)
(* SpecRequest: handle_antigravity_request (openai_router.py 610-815) on a *)
(* streaming and on a unary request                                        *)
(***************************************************************************)
\* status_code of the HTTPException of line 806
NotImplemented == 501

\* The request as it comes in: request_data.stream
Request(is_streaming) ==
    [pc |-> "received", is_streaming |-> is_streaming, response |-> "", status |-> 0]

InitRequest ==
    /\ PoolInit
    /\ pool \in {discover_credentials(EmptyPool(d), TRUE) : d \in StreamDocs}
    /\ budget = Budget(0, 0, 0)
    /\ BanIdle
    /\ stream \in {StreamOf("idle", m, 0, 0, << >>, NoCredentialResult, FALSE) :
                      m \in RequestModels}
    /\ stats = << >>
    /\ quota = NoTracker
    /\ store = NoStore
    /\ calls = NoCalls
    /\ request \in {Request(is_streaming) : is_streaming \in BOOLEAN}
    /\ backend = NoAnswer

\* lines 677-806: a streaming request is answered with the generator, which
\* then runs; any other request raises HTTPException(501).
HandleRequest ==
    /\ request.pc = "received"
    /\ request' = [request EXCEPT
                      !.pc = "responded",
                      !.response = IF request.is_streaming THEN "StreamingResponse"
                                   ELSE "HTTPException",
                      !.status = IF request.is_streaming THEN 0 ELSE NotImplemented]
    /\ stream' = IF request.is_streaming THEN [stream EXCEPT !.pc = "acquire"]
                 ELSE stream
    /\ UNCHANGED <<poolVars, banVars, stats, quota, store, calls, backend>>

NextRequest ==
    \/ HandleRequest
    \/ StreamAcquire /\ UNCHANGED banVars
    \/ StreamChunk
    \/ StreamFinish
    \/ StreamFail

SpecRequest == InitRequest /\ [][NextRequest]_vars

\* C30: a unary request that has been answered has gone through the loop of
\* the streaming one: it has made an acquire, in at most max_retries
\* attempts, and its answer is a success after a backend call or an error
\* status.
C30_UnaryDrivenThroughLoop ==
    (request.pc = "responded" /\ ~request.is_streaming)
       => /\ stream.pc # "idle"
          /\ stream.attempt < max_retries
          /\ \/ request.response = "JSONResponse"
             \/ request.response = "HTTPException" /\ request.status # 0

(***************************************************************************)
(* SpecBan: _handle_429_series_ban on every body and clock                 *)
(***************************************************************************)
BanDelays == {<< >>, D_10M, D_2H22M50S, D_HALF_S, D_TWO_DOTS, D_8570S}

BanClocks == {0, 1000, 7200}

BanTimestamps ==
    {NoTimestamp, BadTimestamp} \cup {Timestamp(t) : t \in {0, 1500, 3600, 10000}}

BanBodies ==
    {Body(j, m, ts, d) :
        j \in BOOLEAN, m \in BanModels, ts \in BanTimestamps, d \in BanDelays}

\* The pool does not take part.
PoolIdle ==
    /\ config = CHOOSE c \in Configs : c.auto_ban_enabled
    /\ clock = 0
    /\ pool = EmptyPool(<< >>)
    /\ lock = FALSE
    /\ acquiring = NoCall
    /\ returned = NoResult
    /\ budget = Budget(0, 0, 0)

InitBan ==
    /\ PoolIdle
    /\ StreamIdle
    /\ banInput \in [body : BanBodies, now : BanClocks]
    /\ banResult = [ban_until |-> 0, series |-> {}]
    /\ banPc = "input"

HandleBan ==
    /\ banPc = "input"
    /\ banResult' = handle_429(banInput.body, banInput.now)
    /\ banPc' = "done"
    /\ UNCHANGED banInput

NextBan == HandleBan /\ UNCHANGED <<poolVars, streamVars>>

SpecBan == InitBan /\ [][NextBan]_vars

\* The duration of the ban _handle_429_series_ban has just set
BanDuration == banResult.ban_until - banInput.now

\* C9: whenever the 429 body carries a reset timestamp, with or without a
\* model id or a reset delay, the ban lasts max(2 x (reset - now), 1 hour).
C9_TimestampBan ==
    (banPc = "done" /\ banInput.body.json /\ banInput.body.ts.kind = "at")
        => BanDuration = Max(2 * (banInput.body.ts.at - banInput.now), 3600)

====
